---------------------------- MODULE Spec2Model ----------------------------
(***************************************************************************)
(* The incremental ingestion pipeline of the OA crawler                    *)
(* (src/crawler/pipeline.py, db.py, embeddings.py, fetcher.py,             *)
(* summarizer.py, cache.py).                                               *)
(*                                                                         *)
(* Each process of Procs executes Crawler.run().  run() is cut into steps  *)
(* at the points where it touches the shared store or the cache; the code  *)
(* between two such points only talks to the upstream portal and to the AI *)
(* endpoints, whose answers are drawn nondeterministically.                *)
(***************************************************************************)
EXTENDS Integers, Sequences, FiniteSets, TLC

VARIABLES
    run,        \* per process: position in run() and the locals of run()
    articles,   \* committed rows of table articles
    vectors,    \* committed rows of table vectors
    today,      \* cache region articles:today
    started,    \* number of runs started so far
    upserted,   \* the runs (by their number) whose insert_articles committed
    fill,       \* a call of _fill_summaries, pass by pass
    env,        \* the deployment: the scheduler and the portal
    gate,       \* a crawler object and the clock its schedule gate reads
    rank,       \* a call of the vector_search tool of the backend
    fetch,      \* a call of fetch_list or fetch_detail and the answer of the portal
    cache,      \* a call of refresh_today_cache
    auth,       \* the session of one refresh token and the calls made with it
    detail,     \* the entries articles:detail:{id} and a call of refresh_article_detail_cache
    warm        \* the cached pages, the caller that computes a page and the pre-warm tasks

vars == <<run, articles, vectors, today, started, upserted, fill, env, gate, rank, fetch, cache,
          auth, detail, warm>>

(***************************************************************************)
(* Bounds and value domains                                                *)
(***************************************************************************)
Procs == {"p1", "p2"}
Links == {"a", "b"}
Dates == {"d1", "d2"}
Hours == {0, 6, 7, 23}

\* longest list the portal answers with
MaxCands == 2
\* the same, where two runs overlap
ConcCands == 1
\* runs started in one behaviour
MaxRuns == 2

\* max_retries of _fill_summaries
max_retries == 3

None == "None"
\* the sentinel of line 275 and the answer of an unconfigured summarizer
\* (summarizer.py line 45), spelled in ASCII
FailMarker == "[AI summary failed]"
Unconfigured == "[AI not configured]"

\* what fetch_detail can answer: "" is the empty content of a failed fetch
DetailResults == {"", "c1"}
\* the same for a portal whose pages are edited between two fetches
EditedResults == {"", "c1", "c2"}

\* a row of the portal's list page
Rows == [link : Links, date : Dates]

RECURSIVE SeqsUpTo(_, _)
SeqsUpTo(S, n) ==
    IF n = 0 THEN {<<>>}
    ELSE LET shorter == SeqsUpTo(S, n - 1)
         IN  shorter \cup {Append(s, x) : s \in {t \in shorter : Len(t) = n - 1}, x \in S}

Pages == {[ok |-> FALSE, rows |-> <<>>]}
         \cup {[ok |-> TRUE, rows |-> r] : r \in SeqsUpTo(Rows, MaxCands)}

Range(s) == {s[i] : i \in 1..Len(s)}

LinksOf(items) == [i \in 1..Len(items) |-> items[i].link]

(***************************************************************************)
(* Crawler._within_hours                                                   *)
(***************************************************************************)
\* the gate with the window applied whatever the target date
_within_hours_any_date(target_date, now_date, now_hour) ==
    7 <= now_hour /\ now_hour < 24

\* the gate with its window opening an hour early
_within_hours_from_six(target_date, now_date, now_hour) ==
    IF target_date # now_date THEN TRUE
    ELSE 6 <= now_hour /\ now_hour < 24

_within_hours(target_date, now_date, now_hour) ==
    IF target_date # now_date THEN TRUE
    ELSE 7 <= now_hour /\ now_hour < 24

(***************************************************************************)
(* The clock of the schedule gate: consecutive calendar days, each with    *)
(* its hours and the first and last minute of every hour.                  *)
(***************************************************************************)
MaxDays == 3
GateDays == 1..MaxDays
GateHours == 0..23
GateMinutes == {0, 59}

\* now.strftime("%Y-%m-%d") of lines 78-79 and time.strftime of line 45: the
\* text of a calendar day
DayNames == [day \in GateDays |-> <<"d1", "d2", "d3", "d4">>[day]]
strftime(day) == DayNames[day]

\* _normalize_date: None stands for the day the crawler is constructed on
_normalize_date(raw, now_day) ==
    IF raw = None THEN strftime(now_day) ELSE raw

\* no crawler object is followed
NoGate == [pc |-> "none", target_date |-> None, day |-> 0, hour |-> 0, minute |-> 0,
           now_day |-> 0, now_hour |-> 0, now_minute |-> 0, allowed |-> FALSE]

(***************************************************************************)
(* fetch_list: the rows of the portal's page, in order, one ArticleMeta    *)
(* per row whose date is the target date; a repeated link stays repeated.  *)
(***************************************************************************)
RECURSIVE fetch_rows(_, _, _)
fetch_rows(target_date, rows, i) ==
    IF i > Len(rows) THEN <<>>
    ELSE IF rows[i].date # target_date
         THEN fetch_rows(target_date, rows, i + 1)
         ELSE <<[link |-> rows[i].link, published_on |-> rows[i].date]>>
              \o fetch_rows(target_date, rows, i + 1)

\* fetch_list without the date filter of lines 87-90
fetch_list_undated(target_date, page) ==
    IF ~page.ok THEN <<>>
    ELSE [i \in 1..Len(page.rows) |->
            [link |-> page.rows[i].link, published_on |-> page.rows[i].date]]

\* page.ok is FALSE when _post answered None (network error, non-200)
fetch_list(target_date, page) ==
    IF ~page.ok THEN <<>> ELSE fetch_rows(target_date, page.rows, 1)

(***************************************************************************)
(* fetcher._post.  What requests.post did is either an answer with a       *)
(* status code and a body, or an exception of the requests.RequestException*)
(* family (a connection error, a timeout).  The result says whether an     *)
(* exception left the function and, if none did, whether the value         *)
(* returned is None (is_none) or the body (value).                         *)
(***************************************************************************)
StatusCodes == {200, 404, 500}
RequestExceptions == {"ConnectionError", "Timeout"}

Responses(bodies) ==
    [kind : {"response"}, status_code : StatusCodes, text : bodies]
    \cup [kind : RequestExceptions, status_code : {0}, text : {None}]

\* _post without the try/except and without the status test
_post_unguarded(response) ==
    IF response.kind = "response"
    THEN [raised |-> FALSE, is_none |-> FALSE, value |-> response.text]
    ELSE [raised |-> TRUE, is_none |-> TRUE, value |-> None]

_post(response) ==
    IF response.kind = "response" /\ response.status_code = 200
    THEN [raised |-> FALSE, is_none |-> FALSE, value |-> response.text]
    ELSE [raised |-> FALSE, is_none |-> TRUE, value |-> None]

\* the body of the list page is the sequence of its table rows
ListBodies == SeqsUpTo(Rows, MaxCands)

\* fetch_list, line 65: "if not page"
PageOf(page) ==
    IF page.is_none THEN [ok |-> FALSE, rows |-> <<>>]
    ELSE [ok |-> TRUE, rows |-> page.value]

(***************************************************************************)
(* fetcher.fetch_detail.  The body of a detail page is its cleaned text    *)
(* and the attachment rows _parse_attachments finds; the content returned  *)
(* is the text followed by one line per attachment.                        *)
(***************************************************************************)
DetailBodies == [text : {"", "c1"}, attachments : {<<>>, <<"f1">>}]

EmptyContent == [text |-> "", attach_lines |-> <<>>]

fetch_detail(html) ==
    IF html.is_none
    THEN [content |-> EmptyContent, attachments |-> <<>>]
    ELSE [content |-> [text |-> html.value.text,
                       attach_lines |-> html.value.attachments],
          attachments |-> html.value.attachments]

NoResponse == [kind |-> "none", status_code |-> 0, text |-> None]

NoFetch == [list_pc |-> "none", detail_pc |-> "none", target_date |-> None,
            list_response |-> NoResponse, detail_response |-> NoResponse,
            candidates |-> <<>>,
            detail |-> [content |-> EmptyContent, attachments |-> <<>>]]

(***************************************************************************)
(* run(), line 141: new_items                                              *)
(***************************************************************************)
RECURSIVE NewItemsFrom(_, _, _)
NewItemsFrom(candidates, existing_links, i) ==
    IF i > Len(candidates) THEN <<>>
    ELSE IF candidates[i].link \notin existing_links
         THEN <<candidates[i]>> \o NewItemsFrom(candidates, existing_links, i + 1)
         ELSE NewItemsFrom(candidates, existing_links, i + 1)

\* new_items without the filter of line 141
AllCandidates(candidates, existing_links) == candidates

NewItems(candidates, existing_links) == NewItemsFrom(candidates, existing_links, 1)

(***************************************************************************)
(* run(), lines 150-167: the detail loop.  resp[i] is what fetch_detail    *)
(* answered for new_items[i]; an empty content skips the item.             *)
(***************************************************************************)
RECURSIVE DetailedFrom(_, _, _)
DetailedFrom(new_items, resp, i) ==
    IF i > Len(new_items) THEN <<>>
    ELSE IF resp[i] = ""
         THEN DetailedFrom(new_items, resp, i + 1)
         ELSE <<[link |-> new_items[i].link,
                 published_on |-> new_items[i].published_on,
                 content |-> resp[i],
                 summary |-> None]>> \o DetailedFrom(new_items, resp, i + 1)

\* the detail loop without the skip of lines 155-157
DetailedKeepingEmpty(new_items, resp) ==
    [i \in 1..Len(new_items) |->
        [link |-> new_items[i].link,
         published_on |-> new_items[i].published_on,
         content |-> resp[i],
         summary |-> None]]

Detailed(new_items, resp) == DetailedFrom(new_items, resp, 1)

(***************************************************************************)
(* Summarizer.summarize: the fixed answer of an unconfigured summarizer,   *)
(* else None (error, non-200, no choices) or the text of the answer.       *)
(***************************************************************************)
\* summarize as its docstring has it: None when no credential is configured
summarize_none_unconfigured(configured, answer) ==
    IF ~configured THEN None ELSE answer

summarize(configured, answer) ==
    IF ~configured THEN Unconfigured ELSE answer

\* Python truthiness of an optional string
Truthy(s) == s # None /\ s # ""

(***************************************************************************)
(* Crawler._fill_summaries.  The frame holds items (the dicts, with their  *)
(* summaries), remaining (positions in items), attempt; calls and fails    *)
(* count the summarize calls made for each item and those that failed.     *)
(***************************************************************************)
FillStart(items) ==
    [items     |-> items,
     remaining |-> [i \in 1..Len(items) |-> i],
     attempt   |-> 0,
     looping   |-> TRUE,
     calls     |-> [i \in 1..Len(items) |-> 0],
     fails     |-> [i \in 1..Len(items) |-> 0]]

\* line 252
LoopCond(f) == f.looping /\ f.remaining # <<>> /\ f.attempt <= max_retries

\* lines 254-259: one pass over remaining; out[i] is summarize's result for item i
PassItems(f, out) ==
    [i \in 1..Len(f.items) |->
        IF i \in Range(f.remaining) /\ Truthy(out[i])
        THEN [f.items[i] EXCEPT !.summary = out[i]]
        ELSE f.items[i]]

\* a pass that puts every item it handled back on the list
PassEverything(f, out) == f.remaining

PassFailures(f, out) == SelectSeq(f.remaining, LAMBDA i : ~Truthy(out[i]))

\* lines 253-271: the body of the while loop
SummarizeRound(f, out) ==
    LET failures == PassFailures(f, out)
        passed   == [f EXCEPT
                       !.items = PassItems(f, out),
                       !.calls = [i \in 1..Len(f.items) |->
                                    IF i \in Range(f.remaining) THEN @[i] + 1 ELSE @[i]],
                       !.fails = [i \in 1..Len(f.items) |->
                                    IF i \in Range(f.remaining) /\ ~Truthy(out[i])
                                    THEN @[i] + 1 ELSE @[i]]]
    IN  IF failures = <<>> THEN [passed EXCEPT !.looping = FALSE]
        ELSE IF f.attempt + 1 > max_retries
             THEN [passed EXCEPT !.attempt = f.attempt + 1, !.looping = FALSE]
             ELSE [passed EXCEPT !.attempt = f.attempt + 1, !.remaining = failures]

\* a return that leaves the summaries as the loop left them
FillFinishKeeps(f) == [f EXCEPT !.looping = FALSE]

\* lines 274-275
FillFinish(f) ==
    [f EXCEPT !.looping = FALSE,
              !.items = [i \in 1..Len(f.items) |->
                  IF i \in Range(f.remaining)
                  THEN [f.items[i] EXCEPT !.summary =
                           IF Truthy(f.items[i].summary) THEN f.items[i].summary
                           ELSE FailMarker]
                  ELSE f.items[i]]]

(***************************************************************************)
(* The whole of _fill_summaries against a summarizer whose answers are     *)
(* answers[attempt][i]: the result of the call for item i in pass attempt. *)
(***************************************************************************)
RECURSIVE FillLoop(_, _)
\* (g is the frame after the pass, computed once)
FillLoop(f, answers) ==
    IF LoopCond(f)
    THEN CHOOSE r \in {FillLoop(g, answers) :
                          g \in {SummarizeRound(f, answers[f.attempt])}} : TRUE
    ELSE FillFinish(f)

_fill_summaries(items, answers) == FillLoop(FillStart(items), answers).items

\* first[i] is the number of the first call for item i that is answered with a
\* text (0: no call is); later calls for an item that succeeded are never made
AnswersOf(configured, first, n) ==
    [attempt \in 0..max_retries |->
        [i \in 1..n |-> summarize(configured,
            IF first[i] # 0 /\ first[i] <= attempt + 1 THEN "s1" ELSE None)]]

\* The answers of every summarizer the run may meet, for n items
SummarizerAnswers(n) ==
    {AnswersOf(FALSE, [i \in 1..n |-> 0], n)}
    \cup {AnswersOf(TRUE, first, n) : first \in [1..n -> 0..(max_retries + 1)]}

(***************************************************************************)
(* The store (db.py).  A row of articles is [id, link, published_on,       *)
(* content, summary]; a row of vectors is [id, article_id, embedding,      *)
(* published_on].  BIGSERIAL ids grow with every insert.                    *)
(***************************************************************************)
Max(S) == CHOOSE x \in S : \A y \in S : y <= x

NextId(rows) == IF rows = {} THEN 1 ELSE Max({r.id : r \in rows}) + 1

RECURSIVE SortById(_)
SortById(rows) ==
    IF rows = {} THEN <<>>
    ELSE LET r == CHOOSE x \in rows : \A y \in rows : x.id <= y.id
         IN  <<r>> \o SortById(rows \ {r})

\* fetch_existing_links: SELECT link FROM articles WHERE published_on = %s
fetch_existing_links(rows, target_date) ==
    {r.link : r \in {x \in rows : x.published_on = target_date}}

\* a table whose UNIQUE constraint is on (link, published_on)
LinkDateConflict(rows, rec) ==
    \E r \in rows : r.link = rec.link /\ r.published_on = rec.published_on

\* a table without the UNIQUE constraint on link: no insert ever conflicts
NoLinkConflict(rows, rec) == FALSE

\* link TEXT NOT NULL UNIQUE with ON CONFLICT (link) DO NOTHING
LinkConflict(rows, rec) == \E r \in rows : r.link = rec.link

\* ON CONFLICT (link) DO UPDATE: the stored row takes the submitted content
\* and summary
OnConflictUpdate(rows, rec) ==
    {IF r.link = rec.link
     THEN [r EXCEPT !.content = rec.content, !.summary = rec.summary]
     ELSE r : r \in rows}

\* ON CONFLICT (link) DO NOTHING, lines 119-122: the table stays as it is
OnConflict(rows, rec) == rows

\* insert_articles, lines 126-139: one INSERT per record, counting rowcount
RECURSIVE InsertArticlesFrom(_, _, _, _)
InsertArticlesFrom(rows, records, i, count) ==
    IF i > Len(records) THEN [rows |-> rows, count |-> count]
    ELSE IF LinkConflict(rows, records[i])
         THEN InsertArticlesFrom(OnConflict(rows, records[i]), records, i + 1, count)
         ELSE InsertArticlesFrom(
                  rows \cup {[id           |-> NextId(rows),
                              link         |-> records[i].link,
                              published_on |-> records[i].published_on,
                              content      |-> records[i].content,
                              summary      |-> records[i].summary]},
                  records, i + 1, count + 1)

\* insert_articles returning the number of records it was given
insert_articles_counting_all(rows, records) ==
    [rows |-> InsertArticlesFrom(rows, records, 1, 0).rows, count |-> Len(records)]

insert_articles(rows, records) == InsertArticlesFrom(rows, records, 1, 0)

\* the SELECT without its WHERE clause
fetch_all_ids(rows, links) ==
    IF links = <<>> THEN <<>> ELSE SortById(rows)

\* fetch_article_ids: SELECT ... FROM articles WHERE link = ANY(%s)
fetch_article_ids(rows, links) ==
    IF links = <<>> THEN <<>>
    ELSE SortById({r \in rows : r.link \in Range(links)})

\* an index on vectors(article_id) that is not UNIQUE: no insert conflicts
NoArticleConflict(vrows, item) == FALSE

\* CREATE UNIQUE INDEX idx_vectors_article with ON CONFLICT (article_id) DO NOTHING
ArticleConflict(vrows, item) == \E v \in vrows : v.article_id = item.article_id

\* insert_embeddings, lines 186-189; id is the BIGSERIAL key of vectors
RECURSIVE InsertEmbeddingsFrom(_, _, _, _)
InsertEmbeddingsFrom(vrows, payloads, i, count) ==
    IF i > Len(payloads) THEN [rows |-> vrows, count |-> count]
    ELSE IF ArticleConflict(vrows, payloads[i])
         THEN InsertEmbeddingsFrom(vrows, payloads, i + 1, count)
         ELSE InsertEmbeddingsFrom(
                  vrows \cup {[id           |-> NextId(vrows),
                               article_id   |-> payloads[i].article_id,
                               embedding    |-> payloads[i].embedding,
                               published_on |-> payloads[i].published_on]},
                  payloads, i + 1, count + 1)

insert_embeddings(vrows, payloads) == InsertEmbeddingsFrom(vrows, payloads, 1, 0)

(***************************************************************************)
(* Embedder.embed_batch.  resp is the endpoint's answer: a network error,  *)
(* a non-200 status, or 200 with resp.count usable vectors.  The vector of *)
(* a text is written as the text itself; a vector beyond the inputs is     *)
(* "extra".  NoEmbeddings is the None the function returns.                *)
(***************************************************************************)
NoEmbeddings == [ok |-> FALSE, list |-> <<>>]

EmbedResponses(n) ==
    {[kind |-> "error", count |-> 0], [kind |-> "non200", count |-> 0]}
    \cup {[kind |-> "ok", count |-> k] : k \in 0..(n + 1)}

\* lines 72-75: the vectors the answer carries, in the order of the answer
ResponseVectors(resp, texts) ==
    [i \in 1..resp.count |->
        IF i <= Len(texts) THEN [of |-> texts[i]]
        ELSE [of |-> [summary |-> "extra", content |-> "extra"]]]

\* embed_batch without the comparison of the two lengths
CountUnchecked(embeddings, texts) == [ok |-> TRUE, list |-> embeddings]

\* lines 78-82: the count check
CountChecked(embeddings, texts) ==
    IF Len(embeddings) # Len(texts) THEN NoEmbeddings
    ELSE [ok |-> TRUE, list |-> embeddings]

embed_batch(configured, resp, texts) ==
    IF ~configured THEN NoEmbeddings
    ELSE IF resp.kind = "error" THEN NoEmbeddings
    ELSE IF resp.kind = "non200" THEN NoEmbeddings
    ELSE CountChecked(ResponseVectors(resp, texts), texts)

\* a text composed without the summary of the row
_compose_embed_text_no_summary(article) ==
    [summary |-> "", content |-> article.content]

\* _compose_embed_text: summary and content of the row looked up (rows carry
\* no title here)
_compose_embed_text(article) ==
    [summary |-> article.summary, content |-> article.content]

\* _generate_embeddings, line 316: "if not embeddings"
NotEmbeddings(e) == ~e.ok \/ e.list = <<>>

\* _generate_embeddings, lines 320-330: zip(articles, embeddings)
Min(a, b) == IF a <= b THEN a ELSE b

\* payloads keyed by the position in the batch, counted from 0
PayloadsByIndex(arts, embeddings) ==
    [i \in 1..Min(Len(arts), Len(embeddings)) |->
        [article_id   |-> i - 1,
         embedding    |-> embeddings[i],
         published_on |-> arts[i].published_on]]

Payloads(arts, embeddings) ==
    [i \in 1..Min(Len(arts), Len(embeddings)) |->
        [article_id   |-> arts[i].id,
         embedding    |-> embeddings[i],
         published_on |-> arts[i].published_on]]

(***************************************************************************)
(* The cache.  today is the region articles:today: absent, or the list     *)
(* last written by refresh_today_cache (rows without their content).       *)
(***************************************************************************)
NoRegion == [present |-> FALSE, date |-> None, articles |-> <<>>,
             next_before_id |-> None, has_more |-> FALSE, ttl |-> 0]

\* line 85: the seconds articles:today lives after a write
TodayTtl == 86400

\* ArticleRepository.fetch_for_cache (called at pipeline.py line 201): the
\* stored rows of the date
fetch_for_cache(rows, target_date) ==
    SortById({r \in rows : r.published_on = target_date})

\* a write that leaves the expiry of an entry it overwrites as it was
\* (SET ... KEEPTTL)
refresh_today_cache_keepttl(cached, target_date) ==
    [present  |-> TRUE,
     date     |-> target_date,
     articles |-> [i \in 1..Len(cached) |->
                    [id |-> cached[i].id, link |-> cached[i].link,
                     published_on |-> cached[i].published_on,
                     summary |-> cached[i].summary]],
     next_before_id |-> IF cached = <<>> THEN None ELSE cached[Len(cached)].id,
     has_more |-> FALSE,
     ttl      |-> IF today.present THEN today.ttl ELSE TodayTtl]

\* cache.py, lines 68-85: the payload of articles:today and its setex
refresh_today_cache(cached, target_date) ==
    [present  |-> TRUE,
     date     |-> target_date,
     articles |-> [i \in 1..Len(cached) |->
                    [id |-> cached[i].id, link |-> cached[i].link,
                     published_on |-> cached[i].published_on,
                     summary |-> cached[i].summary]],
     next_before_id |-> IF cached = <<>> THEN None ELSE cached[Len(cached)].id,
     has_more |-> FALSE,
     ttl      |-> TodayTtl]

\* no call of refresh_today_cache is followed
NoCache == [pc |-> "none", articles |-> <<>>, target_date |-> None,
            returned |-> 0, prior_ttl |-> 0]

\* a refresher that writes articles:today whatever the date of the run
refresh_article_cache_any_date(cached, target_date, now_date) ==
    refresh_today_cache(cached, target_date)

\* refresh_article_cache (called at pipeline.py line 202): the Cache
\* Refresher, of which the region articles:today is followed here; it is
\* written for the current date only
refresh_article_cache(cached, target_date, now_date) ==
    IF target_date = now_date THEN refresh_today_cache(cached, target_date)
    ELSE today

(***************************************************************************)
(* The entries articles:detail:{id}.  An entry is absent, or holds the     *)
(* item last written under the id and the seconds it still lives.  A row   *)
(* without the key id stands for an item whose article.get("id") is None.  *)
(***************************************************************************)
\* line 13
DEFAULT_CACHE_DAYS == 3

\* the ids an entry can be keyed by
DetailIds == {1, 2}

NoEntry == [present |-> FALSE, value |-> <<>>, ttl |-> 0]

\* no entry is cached and no call of refresh_article_detail_cache is followed
NoDetail == [entries |-> [k \in DetailIds |-> NoEntry], pc |-> "none",
             articles |-> <<>>, outcome |-> "none", returned |-> 0]

\* a refresher that reports the size of the batch it was given
refresh_article_detail_cache_counting_all(entries, given, days) ==
    LET ttl_seconds == Max({days, 1}) * 86400
        keyed == {i \in 1..Len(given) : "id" \in DOMAIN given[i]}
        last(k) == Max({i \in keyed : given[i].id = k})
    IN  [entries |-> [k \in DOMAIN entries |->
                        IF \E i \in keyed : given[i].id = k
                        THEN [present |-> TRUE, value |-> given[last(k)],
                              ttl |-> ttl_seconds]
                        ELSE entries[k]],
         updated |-> Len(given)]

\* cache.py, lines 123-141: one setex per item that has an id, in the order
\* of the batch, and the number of setex answered
refresh_article_detail_cache(entries, given, days) ==
    LET ttl_seconds == Max({days, 1}) * 86400
        keyed == {i \in 1..Len(given) : "id" \in DOMAIN given[i]}
        last(k) == Max({i \in keyed : given[i].id = k})
    IN  [entries |-> [k \in DOMAIN entries |->
                        IF \E i \in keyed : given[i].id = k
                        THEN [present |-> TRUE, value |-> given[last(k)],
                              ttl |-> ttl_seconds]
                        ELSE entries[k]],
         updated |-> Cardinality(keyed)]

(***************************************************************************)
(* The paginated regions page:{beforeId}:{limit} and the pre-warm of the   *)
(* next page (Cache Refresher).  The stored items have the ids 1 to        *)
(* MaxStored; the page before an id holds the PageLimit items below it,    *)
(* newest first.  A pre-warm task is known by the number of the caller     *)
(* that started it.                                                        *)
(***************************************************************************)
\* most items stored, and most callers followed
MaxStored == 3
MaxCallers == 2

\* the limit of a page
PageLimit == 2

NoTask == [pc |-> "none", key |-> 0, conn |-> FALSE, orphan |-> FALSE]

\* no page is cached, no caller computes a page, no task was started
NoWarm == [pages |-> {},
           caller |-> [pc |-> "none", n |-> 0, before |-> 0, count |-> 0, conn |-> FALSE],
           task |-> [r \in 1..MaxCallers |-> NoTask]]

\* the number of items on the page before an id, and the beforeId of the
\* page that follows it: the id of its last item
page_count(before) == Min(PageLimit, before - 1)
next_before_id(before) == before - page_count(before)

\* the current page is full and the next page is not already cached
prewarm_needed(before, pages) ==
    page_count(before) = PageLimit /\ next_before_id(before) \notin pages

(***************************************************************************)
(* The retrieval ranker (backend/routes/ai.py).  A row is a vector joined  *)
(* with its article as the query of search_similar_articles sees it:       *)
(* similarity is the cosine distance to the query vector and days is       *)
(* CURRENT_DATE - published_on.  Distances and scores are counted in       *)
(* units of the resolution of a score.                                     *)
(***************************************************************************)
Similarities == {10, 12}
DayDiffs == {-1, 0, 4, 5}
RankRows == [similarity : Similarities, days : DayDiffs]

\* most rows in vectors
MaxCorpus == 6
Corpora == {c \in SUBSET RankRows : Cardinality(c) <= MaxCorpus}

\* what the model asks the tool for, and what the deployment configures
ToolTopKs == {0, 1, 2, 11}
RecencyWeights == {-1, 0, 1}
HalfLives == {0, 1}

\* line 245: normalized_top_k
normalized_top_k(top_k) == Max({1, Min(10, top_k)})

\* the candidate limit without the over-fetch
candidate_limit_exact(top_k) == Min(top_k, 50)

\* line 138
candidate_limit(top_k) == Min(Max({top_k * 5, top_k}), 50)

\* lines 136-137
recency_weight(configured) == Max({configured, 0})
half_life_days(configured) == Max({configured, 1})

\* GREATEST(CURRENT_DATE - published_on, 0)
age_days(days) == Max({days, 0})

\* exp(-age / half_life) times the largest bonus, in units of the resolution
\* of a score: it halves with every half_life days until it is below one
\* unit, where the double precision subtraction of line 150 leaves the
\* similarity as it is
Resolution == 8
exp_neg(age, half_life) == Resolution \div (2 ^ (age \div half_life))

\* the score with the bonus subtracted whatever the weight
score_ignoring_weight(row, weight, half_life) ==
    row.similarity - exp_neg(age_days(row.days), half_life)

\* the score with the recency bonus added instead of subtracted
score_penalising_recent(row, weight, half_life) ==
    row.similarity + weight * exp_neg(age_days(row.days), half_life)

\* line 150: similarity - weight * exp(-age / half_life)
score(row, weight, half_life) ==
    row.similarity - weight * exp_neg(age_days(row.days), half_life)

\* ORDER BY key ASC LIMIT limit: every order the database may answer with,
\* rows of equal key in any order
RECURSIVE OrderByLimit(_, _)
OrderByLimit(keyed, limit) ==
    IF keyed = {} \/ limit = 0 THEN {<<>>}
    ELSE LET least == {x \in keyed : \A y \in keyed : x.key <= y.key}
         IN  UNION {{<<x.row>> \o rest : rest \in OrderByLimit(keyed \ {x}, limit - 1)}
                     : x \in least}

\* lines 141-147: the candidate rows
Candidates(corpus, limit) ==
    OrderByLimit({[row |-> r, key |-> r.similarity] : r \in corpus}, limit)

\* the outer query without its ORDER BY: the candidates as they come
Unranked(candidates, weight, half_life, top_k) ==
    {[i \in 1..Min(top_k, Len(candidates)) |->
        [similarity |-> candidates[i].similarity, days |-> candidates[i].days,
         score |-> score(candidates[i], weight, half_life)]]}

\* lines 148-153: the rows with their scores, ORDER BY score ASC LIMIT top_k
Ranked(candidates, weight, half_life, top_k) ==
    OrderByLimit({[row |-> [similarity |-> r.similarity, days |-> r.days,
                            score |-> score(r, weight, half_life)],
                   key |-> score(r, weight, half_life)] : r \in Range(candidates)},
                 top_k)

\* no call of the tool is followed
NoRank == [pc |-> "none", corpus |-> {}, asked |-> 0, weight |-> 0, half_life |-> 0,
           top_k |-> 0, recency_weight |-> 0, half_life_days |-> 0,
           candidate_limit |-> 0, candidates |-> <<>>, results |-> <<>>]

(***************************************************************************)
(* AuthService.refresh and AuthService.logout (backend/services/           *)
(* auth_service.py) on the session row of one refresh token.  A call       *)
(* reads the row, and later statements of the call work on what it read.   *)
(***************************************************************************)
AuthCalls == {"k1", "k2", "k3"}

IdleCall == [op |-> "none", pc |-> "idle", result |-> "none", after |-> FALSE]

NoSession == [exists |-> FALSE, revoked |-> FALSE, expired |-> FALSE]

\* no call with the token is followed
NoAuth == [session |-> NoSession, user |-> FALSE,
           call |-> [c \in AuthCalls |-> IdleCall]]

\* the call has returned: result is "tokens" (refresh), "ok" (logout) or the
\* error raised
Answered(call, result) == [call EXCEPT !.pc = "returned", !.result = result]

\* a refresh or a logout with the token has returned without raising
Completed(calls) ==
    \E c \in AuthCalls : calls[c].pc = "returned" /\ calls[c].result \in {"tokens", "ok"}

(***************************************************************************)
(* Crawler.run                                                             *)
(***************************************************************************)
Locals(pc, d) ==
    [pc             |-> pc,
     ord            |-> 0,          \* the number of this run
     ended          |-> "",         \* where run() returned
     target_date    |-> d,
     use_database   |-> TRUE,
     conn           |-> FALSE,      \* conn is not None
     open           |-> FALSE,      \* a connection of this run is open
     existing_links |-> {},
     candidates     |-> <<>>,
     new_items      |-> <<>>,
     details        |-> <<>>,       \* fetch_detail's content for each new item
     detailed       |-> <<>>,
     inserted       |-> 0,
     refreshed      |-> 0,          \* what refresh_article_cache returned
     now_date       |-> None,       \* the current date when the cache was refreshed
     txn            |-> [table |-> "none", rows |-> {}, of |-> 0],
                                    \* rows written and not committed
     articles       |-> <<>>,
     answer         |-> [kind |-> "none", count |-> 0],  \* of the embedding endpoint
     embeddings     |-> NoEmbeddings,
     did_insert     |-> FALSE,      \* insert_articles returned
     did_refresh    |-> FALSE,      \* refresh_article_cache was called
     did_lookup     |-> FALSE,      \* fetch_for_embedding returned
     did_embed      |-> FALSE]      \* embed_batch was called

\* records only for the items whose summary is not the sentinel
RecordsSummarized(detailed) ==
    SelectSeq([i \in 1..Len(detailed) |->
                  [link         |-> detailed[i].link,
                   published_on |-> detailed[i].published_on,
                   content      |-> detailed[i].content,
                   summary      |-> detailed[i].summary]],
              LAMBDA rec : rec.summary # FailMarker)

\* lines 185-196: one ArticleRecord for every item of detailed
Records(detailed) ==
    [i \in 1..Len(detailed) |->
        [link         |-> detailed[i].link,
         published_on |-> detailed[i].published_on,
         content      |-> detailed[i].content,
         summary      |-> detailed[i].summary]]

\* a run that goes on to the store whatever lines 103-126 found
StoreAssumed(r) == TRUE

\* line 183
StoreUsable(r) == r.use_database /\ r.conn

\* line 200
NeedsRefresh(inserted) == inserted > 0

\* lines 135-137, 145-147, 173-175, 229-230, 236-237: "if conn: conn.close()"
\* and the return (a store error inside the inner try is printed at lines
\* 218-219 and run() goes on to line 229): the locals of run() are gone, a connection that was not
\* closed stays open
Closed(r) ==
    [Locals("done", None) EXCEPT !.ended = "end",
                                 !.open = IF r.conn THEN FALSE ELSE r.open]

\* the early returns of lines 131-137, 143-147, 170-175
ClosedEarly(r, line) == [Closed(r) EXCEPT !.ended = line]

\* a call of insert_articles or insert_embeddings raised after it had written
\* rows (of them, out of the "of" records of the call) into its transaction;
\* the exception is on its way to line 218
Failed(r, table, rows, of) ==
    [Locals("failed", None) EXCEPT !.ord = r.ord, !.use_database = r.use_database,
        !.conn = r.conn, !.open = r.open,
        !.txn = [table |-> table, rows |-> rows, of |-> of]]

\* conn.close() commits what the connection has written
ClosingCommits(committed, uncommitted) == committed \cup uncommitted

\* lines 229-230: conn.close() on a connection that is not in autocommit mode
\* (db.py line 39) discards what was written and not committed
AfterClose(committed, uncommitted) == committed

\* line 214: return with the connection left as it is
Returned(r) == [Locals("done", None) EXCEPT !.ended = "no articles", !.open = r.open]

\* The runs are interchangeable, so the first of two overlapping runs is p1's;
\* env.overlap says whether the scheduler lets two runs overlap.
MayStart(p) ==
    /\ run[p].pc \in {"idle", "done"}
    /\ started < MaxRuns
    /\ p # "p1" => env.overlap /\ run["p1"].pc \notin {"idle", "done"}

\* What the portal answers: anything of at most env.pagesize rows, or, when
\* env.fixed, the same page and the same details at every call
PagesNow == IF env.fixed THEN {env.page}
            ELSE {pg \in Pages : Len(pg.rows) <= env.pagesize}

DetailsNow(new_items) ==
    IF env.fixed THEN {[i \in 1..Len(new_items) |-> env.detail[new_items[i].link]]}
    ELSE [1..Len(new_items) -> env.contents]

DatesNow == IF env.fixed THEN {env.date} ELSE Dates

\* lines 103-126: connect, ensure_schema, existing_links; raised names the call
\* that raised
Connected(d, raised) ==
    IF raised = "no"
    THEN [Locals("fetch", d) EXCEPT !.ord = started + 1, !.conn = TRUE, !.open = TRUE,
                !.existing_links = fetch_existing_links(articles, d)]
    ELSE [Locals("fetch", d) EXCEPT !.ord = started + 1,
                !.use_database = FALSE, !.conn = FALSE,
                !.open = (raised # "connect")]

\* lines 96-175: the schedule gate, the connection, the list, the filter and
\* the details.  Only line 120 reads the store.
Start(p) ==
    /\ MayStart(p)
    /\ started' = started + 1
    /\ \E d \in DatesNow :
         \/ /\ \E now_date \in Dates, now_hour \in Hours : ~_within_hours(d, now_date, now_hour)
            /\ run' = [run EXCEPT ![p] = [Locals("done", None) EXCEPT !.ended = "hours"]]
         \/ /\ \E now_date \in Dates, now_hour \in Hours : _within_hours(d, now_date, now_hour)
            /\ \E raised \in {"no", "connect", "schema", "links"}, page \in PagesNow :
                 LET r     == Connected(d, raised)
                     cands == fetch_list(d, page)
                     new   == NewItems(cands, r.existing_links)
                     r1    == [r EXCEPT !.candidates = cands, !.new_items = new]
                 IN  IF cands = <<>> \/ new = <<>>
                     THEN run' = [run EXCEPT ![p] = ClosedEarly(r1,
                              IF cands = <<>> THEN "no list" ELSE "nothing new")]
                     ELSE \E resp \in DetailsNow(new) :
                            LET det == Detailed(new, resp)
                                r2  == [r1 EXCEPT !.details = resp]
                            IN  IF det = <<>>
                                THEN run' = [run EXCEPT ![p] = ClosedEarly(r2, "no details")]
                                ELSE run' = [run EXCEPT ![p] =
                                         [r2 EXCEPT !.pc = "summarize", !.detailed = det]]
    /\ UNCHANGED <<articles, vectors, today, upserted, fill, env, gate, rank, fetch, cache, auth, detail, warm>>

\* lines 177-180: _fill_summaries
Summarize(p) ==
    /\ run[p].pc = "summarize"
    /\ \E answers \in SummarizerAnswers(Len(run[p].detailed)) :
         run' = [run EXCEPT ![p] =
             [@ EXCEPT !.pc = "persist",
                       !.detailed = _fill_summaries(run[p].detailed, answers)]]
    /\ UNCHANGED <<articles, vectors, today, started, upserted, fill, env, gate, rank, fetch, cache, auth, detail, warm>>

\* lines 183-199: insert_articles commits
InsertArticles(p) ==
    /\ run[p].pc = "persist"
    /\ StoreUsable(run[p])
    /\ LET res == insert_articles(articles, Records(run[p].detailed))
       IN  /\ articles' = res.rows
           /\ run' = [run EXCEPT ![p] =
                  [@ EXCEPT !.inserted = res.count, !.did_insert = TRUE,
                            !.pc = IF NeedsRefresh(res.count) THEN "refresh" ELSE "lookup"]]
    /\ upserted' = upserted \cup {run[p].ord}
    /\ UNCHANGED <<vectors, today, started, fill, env, gate, rank, fetch, cache, auth, detail, warm>>

\* db.py lines 125-141: insert_articles raises at the INSERT of record k + 1,
\* or, all records written, at its commit
InsertArticlesRaises(p) ==
    /\ run[p].pc = "persist"
    /\ StoreUsable(run[p])
    /\ \E k \in 0..Len(run[p].detailed) :
         LET records == Records(run[p].detailed)
             written == insert_articles(articles, SubSeq(records, 1, k)).rows \ articles
         IN  run' = [run EXCEPT ![p] = Failed(@, "articles", written, Len(records))]
    /\ UNCHANGED <<articles, vectors, today, started, upserted, fill, env, gate, rank, fetch, cache, auth, detail, warm>>

\* lines 218-219, 229-230: the exception is printed and the connection closed
CloseAfterError(p) ==
    /\ run[p].pc = "failed"
    /\ articles' = IF run[p].txn.table = "articles"
                   THEN AfterClose(articles, run[p].txn.rows) ELSE articles
    /\ vectors' = IF run[p].txn.table = "vectors"
                  THEN AfterClose(vectors, run[p].txn.rows) ELSE vectors
    /\ run' = [run EXCEPT ![p] = ClosedEarly(@, "store error")]
    /\ UNCHANGED <<today, started, upserted, fill, env, gate, rank, fetch, cache, auth, detail, warm>>

\* lines 220-238: the store is not used
SkipStore(p) ==
    /\ run[p].pc = "persist"
    /\ ~StoreUsable(run[p])
    /\ run' = [run EXCEPT ![p] = Closed(@)]
    /\ UNCHANGED <<articles, vectors, today, started, upserted, fill, env, gate, rank, fetch, cache, auth, detail, warm>>

\* the refresh step with a cache failure raised into the handler of line 218
RefreshCacheAborts(p) ==
    /\ run[p].pc = "refresh"
    /\ \E reachable \in BOOLEAN, now_date \in Dates :
         /\ today' = IF reachable
                     THEN refresh_article_cache(fetch_for_cache(articles, run[p].target_date),
                                                run[p].target_date, now_date)
                     ELSE today
         /\ run' = [run EXCEPT ![p] =
                IF reachable
                THEN [@ EXCEPT !.did_refresh = TRUE, !.pc = "lookup", !.refreshed = 1,
                               !.now_date = now_date]
                ELSE [Failed(@, "none", {}, 0) EXCEPT !.did_refresh = TRUE, !.refreshed = 0]]
    /\ UNCHANGED <<articles, vectors, started, upserted, fill, env, gate, rank, fetch, cache, auth, detail, warm>>

\* lines 200-206: fetch_for_cache and refresh_article_cache; the cache may be
\* unreachable, which leaves the region as it is; now_date is the current
\* date as the refresher reads it
RefreshCache(p) ==
    /\ run[p].pc = "refresh"
    /\ \E reachable \in BOOLEAN, now_date \in Dates :
         /\ today' = IF reachable
                     THEN refresh_article_cache(fetch_for_cache(articles, run[p].target_date),
                                                run[p].target_date, now_date)
                     ELSE today
         /\ run' = [run EXCEPT ![p] = [@ EXCEPT !.did_refresh = TRUE, !.pc = "lookup",
                                                !.refreshed = IF reachable THEN 1 ELSE 0,
                                                !.now_date = now_date]]
    /\ UNCHANGED <<articles, vectors, started, upserted, fill, env, gate, rank, fetch, cache, auth, detail, warm>>

\* lines 201, 218-219, 229-230: fetch_for_cache raises
RefreshCacheRaises(p) ==
    /\ run[p].pc = "refresh"
    /\ run' = [run EXCEPT ![p] = ClosedEarly(@, "store error")]
    /\ UNCHANGED <<articles, vectors, today, started, upserted, fill, env, gate, rank, fetch, cache, auth, detail, warm>>

\* lines 210-215: fetch_for_embedding; line 214 returns without closing
Lookup(p) ==
    /\ run[p].pc = "lookup"
    /\ LET arts == fetch_article_ids(articles, LinksOf(run[p].detailed))
       IN  run' = [run EXCEPT ![p] =
               IF arts = <<>> THEN Returned(@)
               ELSE [@ EXCEPT !.articles = arts, !.did_lookup = TRUE, !.pc = "vectors"]]
    /\ UNCHANGED <<articles, vectors, today, started, upserted, fill, env, gate, rank, fetch, cache, auth, detail, warm>>

\* lines 211, 218-219, 229-230: fetch_for_embedding raises
LookupRaises(p) ==
    /\ run[p].pc = "lookup"
    /\ run' = [run EXCEPT ![p] = ClosedEarly(@, "store error")]
    /\ UNCHANGED <<articles, vectors, today, started, upserted, fill, env, gate, rank, fetch, cache, auth, detail, warm>>

\* line 216 with lines 313-315: the texts and the call of embed_batch;
\* configured says whether the embedding settings are complete
CallEmbedding(p) ==
    /\ run[p].pc = "vectors"
    /\ \E configured \in BOOLEAN, resp \in EmbedResponses(Len(run[p].articles)) :
         LET arts  == run[p].articles
             texts == [i \in 1..Len(arts) |-> _compose_embed_text(arts[i])]
             answer == IF configured THEN resp ELSE [kind |-> "unconfigured", count |-> 0]
         IN  run' = [run EXCEPT ![p] =
                 [@ EXCEPT !.pc = "store", !.did_embed = TRUE, !.answer = answer,
                           !.embeddings = embed_batch(configured, resp, texts)]]
    /\ UNCHANGED <<articles, vectors, today, started, upserted, fill, env, gate, rank, fetch, cache, auth, detail, warm>>

\* lines 316-334, then lines 217-238: the payloads, insert_embeddings and the
\* end of run()
StoreEmbeddings(p) ==
    /\ run[p].pc = "store"
    /\ vectors' = IF NotEmbeddings(run[p].embeddings) THEN vectors
                  ELSE insert_embeddings(vectors,
                           Payloads(run[p].articles, run[p].embeddings.list)).rows
    /\ run' = [run EXCEPT ![p] = Closed(@)]
    /\ UNCHANGED <<articles, today, started, upserted, fill, env, gate, rank, fetch, cache, auth, detail, warm>>

\* db.py lines 185-191: insert_embeddings raises at the INSERT of payload
\* k + 1, or, all payloads written, at its commit
StoreEmbeddingsRaises(p) ==
    /\ run[p].pc = "store"
    /\ ~NotEmbeddings(run[p].embeddings)
    /\ \E k \in 0..Len(run[p].articles) :
         LET payloads == Payloads(run[p].articles, run[p].embeddings.list)
             written  == insert_embeddings(vectors, SubSeq(payloads, 1, k)).rows \ vectors
         IN  run' = [run EXCEPT ![p] = Failed(@, "vectors", written, Len(payloads))]
    /\ UNCHANGED <<articles, vectors, today, started, upserted, fill, env, gate, rank, fetch, cache, auth, detail, warm>>

\* The deployment of Spec: runs one after the other, a portal that answers
\* anything of at most MaxCands rows
FreeEnv(overlap, pagesize) ==
    [overlap  |-> overlap,
     pagesize |-> pagesize,
     fixed    |-> FALSE,
     contents |-> DetailResults,
     date     |-> None,
     page     |-> [ok |-> FALSE, rows |-> <<>>],
     detail   |-> [l \in Links |-> ""]]

InitStore ==
    /\ run = [p \in Procs |-> Locals("idle", None)]
    /\ articles = {}
    /\ vectors = {}
    /\ today = NoRegion
    /\ started = 0
    /\ upserted = {}

\* no call of _fill_summaries is followed pass by pass
NoFill == [pc |-> "idle", summarizer |-> "none", f |-> FillStart(<<>>)]

Init ==
    /\ InitStore
    /\ fill = NoFill
    /\ gate = NoGate
    /\ rank = NoRank
    /\ fetch = NoFetch
    /\ cache = NoCache
    /\ auth = NoAuth
    /\ detail = NoDetail
    /\ warm = NoWarm
    /\ env = FreeEnv(FALSE, MaxCands)

Next ==
    \E p \in Procs :
        \/ Start(p)
        \/ Summarize(p)
        \/ InsertArticles(p)
        \/ InsertArticlesRaises(p)
        \/ CloseAfterError(p)
        \/ SkipStore(p)
        \/ RefreshCache(p)
        \/ RefreshCacheRaises(p)
        \/ Lookup(p)
        \/ LookupRaises(p)
        \/ CallEmbedding(p)
        \/ StoreEmbeddings(p)
        \/ StoreEmbeddingsRaises(p)

Spec == Init /\ [][Next]_vars

\* Two overlapping runs, a portal of at most ConcCands rows whose pages are
\* edited between two fetches
InitConc ==
    /\ InitStore
    /\ fill = NoFill
    /\ gate = NoGate
    /\ rank = NoRank
    /\ fetch = NoFetch
    /\ cache = NoCache
    /\ auth = NoAuth
    /\ detail = NoDetail
    /\ warm = NoWarm
    /\ env = [FreeEnv(TRUE, ConcCands) EXCEPT !.contents = EditedResults]

SpecConc == InitConc /\ [][Next]_vars

\* Two overlapping runs, a portal of at most ConcCands rows whose pages stay
\* as they are
InitVec ==
    /\ InitStore
    /\ fill = NoFill
    /\ gate = NoGate
    /\ rank = NoRank
    /\ fetch = NoFetch
    /\ cache = NoCache
    /\ auth = NoAuth
    /\ detail = NoDetail
    /\ warm = NoWarm
    /\ env = FreeEnv(TRUE, ConcCands)

SpecVec == InitVec /\ [][Next]_vars

(***************************************************************************)
(* Two runs for one date against a portal that answers the same page and   *)
(* the same details at every call.  The store and the schedule gate stay   *)
(* free to fail.                                                           *)
(***************************************************************************)
FixedEnvs ==
    [overlap  : {FALSE},
     pagesize : {MaxCands},
     fixed    : {TRUE},
     contents : {DetailResults},
     date     : Dates,
     page     : Pages,
     detail   : [Links -> DetailResults]]

InitTwice ==
    /\ InitStore
    /\ fill = NoFill
    /\ gate = NoGate
    /\ rank = NoRank
    /\ fetch = NoFetch
    /\ cache = NoCache
    /\ auth = NoAuth
    /\ detail = NoDetail
    /\ warm = NoWarm
    /\ env \in FixedEnvs

SpecTwice == InitTwice /\ [][Next]_vars

\* the steps of a run that has left the detail loop
Proceed ==
    \E p \in Procs :
        \/ Summarize(p)
        \/ InsertArticles(p)
        \/ InsertArticlesRaises(p)
        \/ CloseAfterError(p)
        \/ SkipStore(p)
        \/ RefreshCache(p)
        \/ RefreshCacheRaises(p)
        \/ Lookup(p)
        \/ LookupRaises(p)
        \/ CallEmbedding(p)
        \/ StoreEmbeddings(p)
        \/ StoreEmbeddingsRaises(p)

\* Two runs against the fixed portal with every call returning: a run that
\* has a step to take takes one
SpecLive == InitTwice /\ [][Next]_vars /\ WF_vars(Proceed)

(***************************************************************************)
(* _fill_summaries pass by pass, against a summarizer that fails at every  *)
(* call, one that fails at any call, and one that is not configured.       *)
(***************************************************************************)
\* longest batch handed to _fill_summaries
MaxItems == 3

SummarizerKinds == {"failing", "blank", "flaky", "unconfigured"}

FillItems ==
    {[i \in 1..Len(ls) |-> [link |-> ls[i], published_on |-> "d1",
                            content |-> "c1", summary |-> None]] :
        ls \in SeqsUpTo(Links, MaxItems) \ {<<>>}}

\* what the calls of one pass may return, for each item
PassResults(kind, n) ==
    IF kind = "unconfigured" THEN {[i \in 1..n |-> summarize(FALSE, None)]}
    ELSE IF kind = "failing" THEN {[i \in 1..n |-> summarize(TRUE, None)]}
    ELSE IF kind = "blank" THEN {[i \in 1..n |-> summarize(TRUE, "")]}
    ELSE [1..n -> {summarize(TRUE, None), summarize(TRUE, "s1")}]

\* lines 252-271: one pass of the while loop
FillRound ==
    /\ fill.pc = "loop"
    /\ LoopCond(fill.f)
    /\ \E out \in PassResults(fill.summarizer, Len(fill.f.items)) :
         fill' = [fill EXCEPT !.f = SummarizeRound(@, out)]
    /\ UNCHANGED <<run, articles, vectors, today, started, upserted, env, gate, rank, fetch, cache, auth, detail, warm>>

\* lines 273-275: the loop is left, the sentinel is written, the call returns
FillReturn ==
    /\ fill.pc = "loop"
    /\ ~LoopCond(fill.f)
    /\ fill' = [fill EXCEPT !.pc = "returned", !.f = FillFinish(@)]
    /\ UNCHANGED <<run, articles, vectors, today, started, upserted, env, gate, rank, fetch, cache, auth, detail, warm>>

InitSumm ==
    /\ InitStore
    /\ env = FreeEnv(FALSE, MaxCands)
    /\ gate = NoGate
    /\ rank = NoRank
    /\ fetch = NoFetch
    /\ cache = NoCache
    /\ auth = NoAuth
    /\ detail = NoDetail
    /\ warm = NoWarm
    /\ \E items \in FillItems, kind \in SummarizerKinds :
         fill = [pc |-> "loop", summarizer |-> kind, f |-> FillStart(items)]

NextSumm == FillRound \/ FillReturn

\* _fill_summaries is straight-line code whose calls all carry a timeout
SpecSumm == InitSumm /\ [][NextSumm]_vars /\ WF_vars(NextSumm)

(***************************************************************************)
(* The end-to-end scenario: the portal lists three links for date d1, every *)
(* detail has content, and an earlier run has stored one of the three      *)
(* links, under either date, with or without its vector.                   *)
(***************************************************************************)
SceneLinks == {"a", "b", "c"}

ScenePage ==
    [ok |-> TRUE,
     rows |-> <<[link |-> "a", date |-> "d1"], [link |-> "b", date |-> "d1"],
               [link |-> "c", date |-> "d1"]>>]

SceneEnv ==
    [overlap  |-> FALSE,
     pagesize |-> Len(ScenePage.rows),
     fixed    |-> TRUE,
     contents |-> DetailResults,
     date     |-> "d1",
     page     |-> ScenePage,
     detail   |-> [l \in SceneLinks |-> "c1"]]

\* the row an earlier run stored for link l under date d
SceneRow(l, d) ==
    insert_articles({}, <<[link |-> l, published_on |-> d,
                           content |-> "c1", summary |-> "s1"]>>).rows

InitScene ==
    /\ run = [p \in Procs |-> Locals("idle", None)]
    /\ started = 0
    /\ upserted = {}
    /\ today = NoRegion
    /\ fill = NoFill
    /\ gate = NoGate
    /\ rank = NoRank
    /\ fetch = NoFetch
    /\ cache = NoCache
    /\ auth = NoAuth
    /\ detail = NoDetail
    /\ warm = NoWarm
    /\ env = SceneEnv
    /\ \E l \in SceneLinks, d \in Dates, embedded \in BOOLEAN :
         /\ articles = SceneRow(l, d)
         /\ vectors = IF embedded
                      THEN LET arts == fetch_article_ids(articles, <<l>>)
                           IN  insert_embeddings({}, Payloads(arts,
                                   <<[of |-> _compose_embed_text(arts[1])]>>)).rows
                      ELSE {}

SpecScene == InitScene /\ [][Next]_vars

(***************************************************************************)
(* Two runs for one date against a portal whose list page stays the same   *)
(* and whose detail page of some link is empty at first.  Between the two  *)
(* runs the portal recovers: the details that were empty now answer        *)
(* Recovered.                                                              *)
(***************************************************************************)
Recovered == "c2"

PortalRecovers ==
    /\ \A p \in Procs : run[p].pc \in {"idle", "done"}
    /\ started >= 1
    /\ \E l \in Links : env.detail[l] = ""
    /\ env' = [env EXCEPT !.detail = [l \in Links |->
                                        IF env.detail[l] = "" THEN Recovered
                                        ELSE env.detail[l]]]
    /\ UNCHANGED <<run, articles, vectors, today, started, upserted, fill, gate, rank, fetch,
                   cache, auth, detail, warm>>

InitRetry ==
    /\ InitStore
    /\ fill = NoFill
    /\ gate = NoGate
    /\ rank = NoRank
    /\ fetch = NoFetch
    /\ cache = NoCache
    /\ auth = NoAuth
    /\ detail = NoDetail
    /\ warm = NoWarm
    /\ env \in {en \in FixedEnvs : \E l \in Links : en.detail[l] = ""}

NextRetry == Next \/ PortalRecovers

SpecRetry == InitRetry /\ [][NextRetry]_vars

(***************************************************************************)
(* The schedule gate of one crawler object over the days of the clock.     *)
(* gate.day, gate.hour, gate.minute are the clock; gate.now_* is the       *)
(* reading of datetime.now() in the last call of _within_hours and         *)
(* gate.allowed is what that call returned.                                *)
(***************************************************************************)
\* Crawler.__init__, line 63: target_date is fixed at construction
Construct ==
    /\ gate.pc = "clock"
    /\ \E raw \in {None} \cup {strftime(d) : d \in GateDays} :
         gate' = [gate EXCEPT !.pc = "built",
                              !.target_date = _normalize_date(raw, gate.day)]
    /\ UNCHANGED <<run, articles, vectors, today, started, upserted, fill, env, rank, fetch, cache, auth, detail, warm>>

\* time passes: to the last minute of the hour, to the next hour, to the next day
Tick ==
    /\ gate.pc \in {"built", "checked"}
    /\ \/ gate.minute = 0 /\ gate' = [gate EXCEPT !.minute = 59]
       \/ gate.minute = 59 /\ gate.hour < 23
            /\ gate' = [gate EXCEPT !.minute = 0, !.hour = @ + 1]
       \/ gate.minute = 59 /\ gate.hour = 23 /\ gate.day < MaxDays
            /\ gate' = [gate EXCEPT !.minute = 0, !.hour = 0, !.day = @ + 1]
    /\ UNCHANGED <<run, articles, vectors, today, started, upserted, fill, env, rank, fetch, cache, auth, detail, warm>>

\* lines 77-80 as called at line 96
CheckGate ==
    /\ gate.pc \in {"built", "checked"}
    /\ gate' = [gate EXCEPT !.pc = "checked",
                            !.now_day = gate.day, !.now_hour = gate.hour,
                            !.now_minute = gate.minute,
                            !.allowed = _within_hours(gate.target_date,
                                                      strftime(gate.day), gate.hour)]
    /\ UNCHANGED <<run, articles, vectors, today, started, upserted, fill, env, rank, fetch, cache, auth, detail, warm>>

InitGate ==
    /\ InitStore
    /\ fill = NoFill
    /\ env = FreeEnv(FALSE, MaxCands)
    /\ rank = NoRank
    /\ fetch = NoFetch
    /\ cache = NoCache
    /\ auth = NoAuth
    /\ detail = NoDetail
    /\ warm = NoWarm
    /\ \E day \in GateDays, hour \in GateHours, minute \in GateMinutes :
         gate = [NoGate EXCEPT !.pc = "clock", !.day = day, !.hour = hour,
                               !.minute = minute]

NextGate == Construct \/ Tick \/ CheckGate

SpecGate == InitGate /\ [][NextGate]_vars

(***************************************************************************)
(* One call of the vector_search tool against a corpus of vectors.         *)
(***************************************************************************)
\* lines 243-254: the tool normalizes top_k and embeds the query
ToolCall ==
    /\ rank.pc = "asked"
    /\ rank' = [rank EXCEPT !.pc = "search", !.top_k = normalized_top_k(rank.asked)]
    /\ UNCHANGED <<run, articles, vectors, today, started, upserted, fill, env, gate, fetch, cache, auth, detail, warm>>

\* lines 255-258: generate_embedding returned None
EmbeddingFailed ==
    /\ rank.pc = "asked"
    /\ rank' = [rank EXCEPT !.pc = "embedding_failed",
                            !.top_k = normalized_top_k(rank.asked)]
    /\ UNCHANGED <<run, articles, vectors, today, started, upserted, fill, env, gate, fetch, cache, auth, detail, warm>>

\* lines 131-178: search_similar_articles, the query answered
SearchSimilar ==
    /\ rank.pc = "search"
    /\ LET w     == recency_weight(rank.weight)
           h     == half_life_days(rank.half_life)
           limit == candidate_limit(rank.top_k)
       IN  \E cands \in Candidates(rank.corpus, limit) :
             \E rows \in Ranked(cands, w, h, rank.top_k) :
                rank' = [rank EXCEPT !.pc = "returned",
                                     !.recency_weight = w, !.half_life_days = h,
                                     !.candidate_limit = limit,
                                     !.candidates = cands, !.results = rows]
    /\ UNCHANGED <<run, articles, vectors, today, started, upserted, fill, env, gate, fetch, cache, auth, detail, warm>>

\* lines 179-181: the query raised
SearchRaises ==
    /\ rank.pc = "search"
    /\ rank' = [rank EXCEPT !.pc = "failed"]
    /\ UNCHANGED <<run, articles, vectors, today, started, upserted, fill, env, gate, fetch, cache, auth, detail, warm>>

InitRank ==
    /\ InitStore
    /\ fill = NoFill
    /\ env = FreeEnv(FALSE, MaxCands)
    /\ gate = NoGate
    /\ fetch = NoFetch
    /\ cache = NoCache
    /\ auth = NoAuth
    /\ detail = NoDetail
    /\ warm = NoWarm
    /\ \E corpus \in Corpora, asked \in ToolTopKs,
          weight \in RecencyWeights, half_life \in HalfLives :
         rank = [NoRank EXCEPT !.pc = "asked", !.corpus = corpus, !.asked = asked,
                               !.weight = weight, !.half_life = half_life]

NextRank == ToolCall \/ EmbeddingFailed \/ SearchSimilar \/ SearchRaises

SpecRank == InitRank /\ [][NextRank]_vars

(***************************************************************************)
(* fetch_list and fetch_detail called against a portal whose answer to     *)
(* each of the two requests is any of Responses.  A call ends "returned"   *)
(* with its value, or "raised" when an exception left it.                  *)
(***************************************************************************)
FetchList ==
    /\ fetch.list_pc = "call"
    /\ LET page == _post(fetch.list_response)
       IN  fetch' = IF page.raised
                    THEN [fetch EXCEPT !.list_pc = "raised"]
                    ELSE [fetch EXCEPT !.list_pc = "returned",
                                       !.candidates =
                                           fetch_list(fetch.target_date, PageOf(page))]
    /\ UNCHANGED <<run, articles, vectors, today, started, upserted, fill, env, gate, rank, cache, auth, detail, warm>>

FetchDetail ==
    /\ fetch.detail_pc = "call"
    /\ LET html == _post(fetch.detail_response)
       IN  fetch' = IF html.raised
                    THEN [fetch EXCEPT !.detail_pc = "raised"]
                    ELSE [fetch EXCEPT !.detail_pc = "returned",
                                       !.detail = fetch_detail(html)]
    /\ UNCHANGED <<run, articles, vectors, today, started, upserted, fill, env, gate, rank, cache, auth, detail, warm>>

InitFetch ==
    /\ InitStore
    /\ fill = NoFill
    /\ env = FreeEnv(FALSE, MaxCands)
    /\ gate = NoGate
    /\ rank = NoRank
    /\ cache = NoCache
    /\ auth = NoAuth
    /\ detail = NoDetail
    /\ warm = NoWarm
    /\ \E target_date \in Dates, list_response \in Responses(ListBodies),
          detail_response \in Responses(DetailBodies) :
         fetch = [NoFetch EXCEPT !.list_pc = "call", !.detail_pc = "call",
                                 !.target_date = target_date,
                                 !.list_response = list_response,
                                 !.detail_response = detail_response]

NextFetch == FetchList \/ FetchDetail

SpecFetch == InitFetch /\ [][NextFetch]_vars

(***************************************************************************)
(* refresh_today_cache called again and again while time passes.  Redis    *)
(* counts the expiry of articles:today down and drops the entry when it    *)
(* reaches zero; Elapse is TickSeconds of that.                            *)
(***************************************************************************)
TickSeconds == 21600

\* most articles handed to one call
MaxCached == 2

CacheRows == {[id |-> n, link |-> l, published_on |-> "d1",
               content |-> "c1", summary |-> "s1"] : n \in 1..MaxCached, l \in Links}

CacheOutcomes == {"written", "no redis_host", "setex raised"}

\* the caller has its list and calls refresh_today_cache
CallRefresh ==
    /\ cache.pc = "idle"
    /\ \E given \in SeqsUpTo(CacheRows, MaxCached), target_date \in Dates :
         cache' = [cache EXCEPT !.pc = "called", !.articles = given,
                                !.target_date = target_date]
    /\ UNCHANGED <<run, articles, vectors, today, started, upserted, fill, env, gate, rank,
                   fetch, auth, detail, warm>>

\* lines 59-96: 0 without a redis_host or when setex raises, else the entry
\* is written and 1 returned
RefreshToday ==
    /\ cache.pc = "called"
    /\ \E outcome \in CacheOutcomes :
         /\ today' = IF outcome = "written"
                     THEN refresh_today_cache(cache.articles, cache.target_date)
                     ELSE today
         /\ cache' = [cache EXCEPT !.pc = "idle",
                                   !.returned = IF outcome = "written" THEN 1 ELSE 0,
                                   !.prior_ttl = today.ttl]
    /\ UNCHANGED <<run, articles, vectors, started, upserted, fill, env, gate, rank, fetch, auth, detail, warm>>

\* the expiry of the entry counted down by TickSeconds
Elapse ==
    /\ today.present
    /\ today' = IF today.ttl - TickSeconds <= 0 THEN NoRegion
                ELSE [today EXCEPT !.ttl = @ - TickSeconds]
    /\ UNCHANGED <<run, articles, vectors, started, upserted, fill, env, gate, rank, fetch,
                   cache, auth, detail, warm>>

InitCache ==
    /\ InitStore
    /\ fill = NoFill
    /\ env = FreeEnv(FALSE, MaxCands)
    /\ gate = NoGate
    /\ rank = NoRank
    /\ fetch = NoFetch
    /\ cache = [NoCache EXCEPT !.pc = "idle"]
    /\ auth = NoAuth
    /\ detail = NoDetail
    /\ warm = NoWarm

NextCache == CallRefresh \/ RefreshToday \/ Elapse

SpecCache == InitCache /\ [][NextCache]_vars

(***************************************************************************)
(* refresh_article_detail_cache called with batches of rows as the         *)
(* database answers them: no two rows of a batch share an id.  An entry    *)
(* found in the cache was put there by the backend when it served the      *)
(* article.                                                                *)
(***************************************************************************)
\* most items handed to one call
MaxBatch == 3

\* backend/routes/articles.py: the seconds an entry written by
\* get_article_detail lives
ServedTtl == 3600

DetailRows ==
    {[id |-> n, link |-> "l1", published_on |-> "d1", content |-> c, summary |-> "s1"] :
        n \in DetailIds, c \in {"c1", "c2"}}
    \cup {[link |-> "l1", published_on |-> "d1", content |-> c, summary |-> "s1"] :
            c \in {"c1", "c2"}}

DetailBatches ==
    {b \in SeqsUpTo(DetailRows, MaxBatch) :
        \A i, j \in 1..Len(b) :
            ("id" \in DOMAIN b[i] /\ "id" \in DOMAIN b[j] /\ b[i].id = b[j].id) => i = j}

\* the caller has its batch and calls refresh_article_detail_cache
CallRefreshDetail ==
    /\ detail.pc = "idle"
    /\ \E given \in DetailBatches :
         detail' = [detail EXCEPT !.pc = "called", !.articles = given]
    /\ UNCHANGED <<run, articles, vectors, today, started, upserted, fill, env, gate, rank,
                   fetch, cache, auth, warm>>

\* lines 116-152: 0 without a redis_host or when the pipeline raises, else
\* the entries are written and counted
RefreshDetail ==
    /\ detail.pc = "called"
    /\ \E outcome \in CacheOutcomes :
         LET done == refresh_article_detail_cache(detail.entries, detail.articles,
                                                  DEFAULT_CACHE_DAYS)
         IN  detail' = [detail EXCEPT
                          !.pc = "idle",
                          !.outcome = outcome,
                          !.entries = IF outcome = "written" THEN done.entries ELSE @,
                          !.returned = IF outcome = "written" THEN done.updated ELSE 0]
    /\ UNCHANGED <<run, articles, vectors, today, started, upserted, fill, env, gate, rank,
                   fetch, cache, auth, warm>>

InitDetail ==
    /\ InitStore
    /\ fill = NoFill
    /\ env = FreeEnv(FALSE, MaxCands)
    /\ gate = NoGate
    /\ rank = NoRank
    /\ fetch = NoFetch
    /\ cache = NoCache
    /\ auth = NoAuth
    /\ warm = NoWarm
    /\ \E served \in SUBSET DetailIds :
         detail = [NoDetail EXCEPT
                     !.pc = "idle",
                     !.entries = [k \in DetailIds |->
                                    IF k \in served
                                    THEN [present |-> TRUE,
                                          value |-> [id |-> k, link |-> "l1",
                                                     published_on |-> "d1",
                                                     content |-> "c0", summary |-> "s1"],
                                          ttl |-> ServedTtl]
                                    ELSE NoEntry]]

NextDetail == CallRefreshDetail \/ RefreshDetail

SpecDetail == InitDetail /\ [][NextDetail]_vars

(***************************************************************************)
(* Callers that compute a page, one after the other, and the pre-warm      *)
(* tasks they start.  A task is detached: it takes its own connections and *)
(* is scheduled whatever its caller does.  Entries expire at any time.     *)
(***************************************************************************)
\* a request or a run asks for the page before an id, on its own connections
Arrive ==
    /\ warm.caller.pc \in {"idle", "returned"}
    /\ warm.caller.n < MaxCallers
    /\ \E before \in 1..(MaxStored + 1) :
         warm' = [warm EXCEPT !.caller = [pc |-> "computing", n |-> @.n + 1,
                                          before |-> before, count |-> 0, conn |-> TRUE]]
    /\ UNCHANGED <<run, articles, vectors, today, started, upserted, fill, env, gate, rank,
                   fetch, cache, auth, detail>>

\* the page is computed and cached, and the pre-warm of the next page is
\* handed to a background task
ComputePage ==
    /\ warm.caller.pc = "computing"
    /\ warm' = [warm EXCEPT
                  !.pages = @ \cup {warm.caller.before},
                  !.caller.pc = "computed",
                  !.caller.count = page_count(warm.caller.before),
                  !.task[warm.caller.n] =
                      IF prewarm_needed(warm.caller.before, warm.pages)
                      THEN [NoTask EXCEPT !.pc = "started",
                                          !.key = next_before_id(warm.caller.before)]
                      ELSE @]
    /\ UNCHANGED <<run, articles, vectors, today, started, upserted, fill, env, gate, rank,
                   fetch, cache, auth, detail>>

\* the caller returns and gives its connections back
Return ==
    /\ warm.caller.pc = "computed"
    /\ warm' = [warm EXCEPT !.caller.pc = "returned", !.caller.conn = FALSE]
    /\ UNCHANGED <<run, articles, vectors, today, started, upserted, fill, env, gate, rank,
                   fetch, cache, auth, detail>>

\* a task that works on the connections of the caller that started it
WarmConnectShared(r) ==
    /\ warm.task[r].pc = "started"
    /\ warm.caller.n = r
    /\ warm.caller.conn
    /\ warm' = [warm EXCEPT !.task[r].pc = "connected",
                            !.task[r].orphan = FALSE]
    /\ UNCHANGED <<run, articles, vectors, today, started, upserted, fill, env, gate, rank,
                   fetch, cache, auth, detail>>

\* the task acquires its own storage and cache connections
WarmConnect(r) ==
    /\ warm.task[r].pc = "started"
    /\ warm' = [warm EXCEPT !.task[r].pc = "connected",
                            !.task[r].conn = TRUE,
                            !.task[r].orphan = ~(warm.caller.n = r /\ warm.caller.conn)]
    /\ UNCHANGED <<run, articles, vectors, today, started, upserted, fill, env, gate, rank,
                   fetch, cache, auth, detail>>

\* the task computes the next page, caches it and ends
WarmWrite(r) ==
    /\ warm.task[r].pc = "connected"
    /\ warm' = [warm EXCEPT !.pages = @ \cup {warm.task[r].key},
                            !.task[r].pc = "done",
                            !.task[r].conn = FALSE]
    /\ UNCHANGED <<run, articles, vectors, today, started, upserted, fill, env, gate, rank,
                   fetch, cache, auth, detail>>

\* the TTL of a page runs out
ExpirePage ==
    /\ \E k \in warm.pages : warm' = [warm EXCEPT !.pages = @ \ {k}]
    /\ UNCHANGED <<run, articles, vectors, today, started, upserted, fill, env, gate, rank,
                   fetch, cache, auth, detail>>

InitWarm ==
    /\ InitStore
    /\ fill = NoFill
    /\ env = FreeEnv(FALSE, MaxCands)
    /\ gate = NoGate
    /\ rank = NoRank
    /\ fetch = NoFetch
    /\ cache = NoCache
    /\ auth = NoAuth
    /\ detail = NoDetail
    /\ \E pages \in SUBSET (1..(MaxStored + 1)) :
         warm = [NoWarm EXCEPT !.pages = pages, !.caller.pc = "idle"]

NextWarm ==
    \/ Arrive
    \/ ComputePage
    \/ Return
    \/ \E r \in 1..MaxCallers : WarmConnect(r) \/ WarmWrite(r)
    \/ ExpirePage

\* a background task that was started is scheduled
SpecWarm ==
    /\ InitWarm
    /\ [][NextWarm]_vars
    /\ \A r \in 1..MaxCallers : WF_vars(WarmConnect(r)) /\ WF_vars(WarmWrite(r))

(***************************************************************************)
(* Calls of refresh and logout with one refresh token, each served by its  *)
(* own request thread; the statements that reach the database are the      *)
(* steps.                                                                  *)
(***************************************************************************)
\* a request arrives: refresh (line 97) or logout (line 121) with the token
AuthRequest(c) ==
    /\ auth.call[c].pc = "idle"
    /\ \E op \in {"refresh", "logout"} :
         auth' = [auth EXCEPT !.call[c] =
                     [IdleCall EXCEPT !.op = op, !.pc = "session",
                                      !.after = Completed(auth.call)]]
    /\ UNCHANGED <<run, articles, vectors, today, started, upserted, fill, env, gate, rank,
                   fetch, cache, detail, warm>>

\* lines 102-111 and 126-130: get_session_by_hash and the tests on the row read
GetSession(c) ==
    /\ auth.call[c].pc = "session"
    /\ auth' = [auth EXCEPT !.call[c] =
          IF @.op = "logout"
          THEN IF auth.session.exists THEN [@ EXCEPT !.pc = "revoke"]
               ELSE Answered(@, "ok")
          ELSE IF ~auth.session.exists THEN Answered(@, "session not found")
          ELSE IF auth.session.revoked THEN Answered(@, "session revoked")
          ELSE IF auth.session.expired THEN Answered(@, "session expired")
          ELSE [@ EXCEPT !.pc = "user"]]
    /\ UNCHANGED <<run, articles, vectors, today, started, upserted, fill, env, gate, rank,
                   fetch, cache, detail, warm>>

\* lines 113-116: get_by_id
GetUser(c) ==
    /\ auth.call[c].pc = "user"
    /\ auth' = [auth EXCEPT !.call[c] =
          IF auth.user THEN [@ EXCEPT !.pc = "revoke"]
          ELSE Answered(@, "user missing")]
    /\ UNCHANGED <<run, articles, vectors, today, started, upserted, fill, env, gate, rank,
                   fetch, cache, detail, warm>>

\* lines 118 and 131: revoke_session, UPDATE ... WHERE id = %s AND revoked_at
\* IS NULL; the number of rows updated is not read
RevokeSession(c) ==
    /\ auth.call[c].pc = "revoke"
    /\ auth' = [auth EXCEPT !.session.revoked = TRUE,
                            !.call[c] = IF @.op = "logout" THEN Answered(@, "ok")
                                        ELSE [@ EXCEPT !.pc = "issue"]]
    /\ UNCHANGED <<run, articles, vectors, today, started, upserted, fill, env, gate, rank,
                   fetch, cache, detail, warm>>

\* line 119: _issue_tokens, a new session with a new token
IssueTokens(c) ==
    /\ auth.call[c].pc = "issue"
    /\ auth' = [auth EXCEPT !.call[c] = Answered(@, "tokens")]
    /\ UNCHANGED <<run, articles, vectors, today, started, upserted, fill, env, gate, rank,
                   fetch, cache, detail, warm>>

InitAuth ==
    /\ InitStore
    /\ fill = NoFill
    /\ env = FreeEnv(FALSE, MaxCands)
    /\ gate = NoGate
    /\ rank = NoRank
    /\ fetch = NoFetch
    /\ cache = NoCache
    /\ \E session \in [exists : BOOLEAN, revoked : BOOLEAN, expired : BOOLEAN],
          user \in BOOLEAN :
         /\ ~session.exists => session = NoSession
         /\ auth = [NoAuth EXCEPT !.session = session, !.user = user]
         /\ detail = NoDetail
         /\ warm = NoWarm

NextAuth ==
    \E c \in AuthCalls :
        \/ AuthRequest(c)
        \/ GetSession(c)
        \/ GetUser(c)
        \/ RevokeSession(c)
        \/ IssueTokens(c)

SpecAuth == InitAuth /\ [][NextAuth]_vars

(***************************************************************************)
(* Properties                                                              *)
(***************************************************************************)

\* C1: after any interleaving of runs, sequential or overlapping, for the same
\* or different dates and with any answers of the portal, table articles never
\* holds two rows with the same link.
C1_UniqueLinks ==
    \A r1, r2 \in articles : r1.link = r2.link => r1 = r2

\* Two overlapping runs both passed the filter with the same link, both
\* insert_articles committed, and one of them inserted nothing.
C1_Witness ==
    /\ run["p1"].did_insert /\ run["p2"].did_insert
    /\ run["p1"].existing_links = {} /\ run["p2"].existing_links = {}
    /\ LinksOf(run["p1"].detailed) = LinksOf(run["p2"].detailed)
    /\ {run["p1"].inserted, run["p2"].inserted} = {0, 1}

\* C3: new_items is exactly the candidates whose link is not in existing_links,
\* in the order of the candidates, and no two entries of new_items have the
\* same link.
C3_NewItemsFilteredNoDuplicates ==
    \A p \in Procs : run[p].pc \notin {"idle", "done"} =>
        /\ run[p].new_items =
               SelectSeq(run[p].candidates,
                         LAMBDA c : c.link \notin run[p].existing_links)
        /\ \A i, j \in DOMAIN run[p].new_items :
               run[p].new_items[i].link = run[p].new_items[j].link => i = j

\* C4: when the embedding endpoint is unreachable, not configured, answers
\* non-200 or answers with a number of vectors other than the number of texts,
\* embed_batch returns None and the run inserts no vector row; a run that
\* inserts vectors leaves every article of its batch with a vector.
C4_EmbedAllOrNothing ==
    [][\A p \in Procs : run[p].pc = "store" /\ run'[p].pc = "done" =>
        LET n   == Len(run[p].articles)
            bad == \/ run[p].answer.kind \in {"unconfigured", "error", "non200"}
                   \/ run[p].answer.count # n
        IN  /\ bad => run[p].embeddings = NoEmbeddings /\ vectors' = vectors
            /\ vectors' # vectors =>
                   \A i \in 1..n : \E v \in vectors' :
                       /\ v.article_id = run[p].articles[i].id
                       /\ v \notin vectors => v.embedding = [of |-> _compose_embed_text(run[p].articles[i])]
      ]_vars

\* embed_batch was given two texts, the endpoint answered with one vector, and
\* embed_batch returned None
C4_Witness ==
    \E p \in Procs :
        /\ run[p].pc = "store"
        /\ Len(run[p].articles) = 2
        /\ run[p].answer = [kind |-> "ok", count |-> 1]
        /\ run[p].embeddings = NoEmbeddings

\* C2: running the pipeline twice in sequence for the same date with the same
\* page and the same details inserts each item at most once, and the second
\* run inserts nothing.
C2_SecondRunInsertsNothing ==
    /\ \A r1, r2 \in articles : r1.link = r2.link => r1 = r2
    /\ \A p \in Procs : run[p].ord >= 2 /\ run[p].did_insert => run[p].inserted = 0

\* C2 as it holds: no link is ever stored twice, and once the insert_articles
\* of a run has committed, no later step of that run or of a later run for the
\* same date with the same page and details inserts a row.
C2_Idempotent ==
    [][/\ \A r1, r2 \in articles' : r1.link = r2.link => r1 = r2
       /\ upserted # {} =>
            /\ articles' = articles
            /\ \A p \in Procs :
                 run'[p].did_insert /\ ~run[p].did_insert => run'[p].inserted = 0
      ]_vars

\* The first run stored two items; the second run passed the gate, listed the
\* same page and found nothing new.
C2_Witness ==
    /\ started = 2
    /\ upserted = {1}
    /\ Cardinality(articles) = 2
    /\ run["p1"].pc = "done" /\ run["p1"].ended = "nothing new"

\* C5: against a summarizer that fails at every call, _fill_summaries returns
\* after the bounded passes (max_retries + 1 calls for each item), and every
\* item then carries the sentinel as its summary.
C5_FailingSummarizerReturns ==
    (fill.summarizer = "failing") ~>
        /\ fill.pc = "returned"
        /\ \A i \in 1..Len(fill.f.items) :
             /\ fill.f.items[i].summary = FailMarker
             /\ fill.f.calls[i] = max_retries + 1

\* a batch of at least two items came back from a summarizer that always fails
C5_Witness ==
    /\ fill.summarizer = "failing"
    /\ fill.pc = "returned"
    /\ Len(fill.f.items) >= 2
    /\ \A i \in 1..Len(fill.f.items) : fill.f.fails[i] = 4

\* C6: whatever calls succeed or fail, a pass calls summarize for an item only
\* if every earlier call for that item failed, and no item is passed to
\* summarize more than 4 times.
C6_RetryOnlyFailed ==
    [][\A i \in 1..Len(fill.f.items) :
           fill'.f.calls[i] # fill.f.calls[i] =>
               /\ fill.f.fails[i] = fill.f.calls[i]
               /\ fill'.f.calls[i] = fill.f.calls[i] + 1
               /\ fill'.f.calls[i] <= 4
      ]_vars

\* one item was summarized at its first call and never called again while
\* another used all 4 calls
C6_Witness ==
    /\ fill.pc = "returned"
    /\ \E i, j \in 1..Len(fill.f.items) :
         /\ fill.f.calls[i] = 1 /\ fill.f.fails[i] = 0
         /\ fill.f.items[i].summary = "s1"
         /\ fill.f.calls[j] = 4 /\ fill.f.fails[j] = 4

\* C7: an item whose summarization failed in every attempt is not dropped: it
\* is among the records handed to insert_articles, with the content that was
\* fetched and the sentinel as its summary, and it is stored like an item
\* whose summarization succeeded (a row is written for the first record of a
\* link that the table does not hold yet).
C7_FailedSummaryStillSubmitted ==
    [][\A p \in Procs : run[p].pc = "persist" /\ run'[p].did_insert =>
        LET det == run[p].detailed
        IN  /\ Len(det) = Cardinality({k \in DOMAIN run[p].details :
                                          run[p].details[k] # ""})
            /\ \A i \in DOMAIN det :
                 /\ det[i].content # ""
                 /\ det[i].summary \in {"s1", Unconfigured, FailMarker}
                 /\ \E r \in articles' : r.link = det[i].link
                 /\ (/\ \A q \in articles : q.link # det[i].link
                     /\ \A j \in 1..(i - 1) : det[j].link # det[i].link)
                    => \E r \in articles' \ articles :
                          /\ r.link = det[i].link
                          /\ r.content = det[i].content
                          /\ r.summary = det[i].summary
                          /\ r.published_on = det[i].published_on
      ]_vars

\* a run stored one item with the sentinel and one with a summary
C7_Witness ==
    \E p \in Procs :
        /\ run[p].did_insert
        /\ run[p].inserted = 2
        /\ \E i, j \in DOMAIN run[p].detailed :
             /\ run[p].detailed[i].summary = FailMarker
             /\ run[p].detailed[j].summary = "s1"
             /\ \E r \in articles :
                  /\ r.link = run[p].detailed[i].link
                  /\ r.summary = FailMarker /\ r.content = "c1"

\* C8: a run whose connect, ensure_schema or existing_links failed still
\* fetches the list and the details and summarizes every candidate, without
\* deduplication, and performs no insert, no vector insert, no cache refresh.
C8_DegradedSummarizesEveryCandidate ==
    \A p \in Procs : run[p].pc = "persist" /\ ~run[p].use_database =>
        /\ run[p].new_items = run[p].candidates
        /\ Len(run[p].detailed) = Len(run[p].candidates)
        /\ \A i \in DOMAIN run[p].detailed : Truthy(run[p].detailed[i].summary)
        /\ ~run[p].did_insert /\ ~run[p].did_refresh /\ ~run[p].did_embed

\* C8 as it holds: such a run fetches the list, fetches the detail of every
\* candidate (no candidate is filtered out) and summarizes every candidate
\* whose detail has content; it calls neither insert_articles nor the cache
\* refresh nor the embedding step, and none of its steps changes the tables or
\* the cache.
C8_DegradedRun ==
    /\ [](\A p \in Procs : run[p].pc \notin {"idle", "done"} /\ ~run[p].use_database =>
            /\ run[p].pc \in {"summarize", "persist"}
            /\ run[p].new_items = run[p].candidates
            /\ Len(run[p].details) = Len(run[p].candidates)
            /\ LinksOf(run[p].detailed) =
                   LinksOf(SelectSeq([i \in DOMAIN run[p].candidates |->
                                         [link |-> run[p].candidates[i].link,
                                          content |-> run[p].details[i]]],
                                     LAMBDA c : c.content # ""))
            /\ run[p].pc = "persist" =>
                   \A i \in DOMAIN run[p].detailed : Truthy(run[p].detailed[i].summary)
            /\ ~run[p].did_insert /\ ~run[p].did_refresh /\ ~run[p].did_embed)
    /\ [][\A p \in Procs :
            run[p].pc \notin {"idle", "done"} /\ ~run[p].use_database /\ run'[p] # run[p]
            => articles' = articles /\ vectors' = vectors /\ today' = today]_vars

\* a degraded run summarized a candidate whose link the table already holds
\* for the date
C8_Witness ==
    \E p \in Procs :
        /\ run[p].pc = "persist"
        /\ ~run[p].use_database
        /\ \E i \in DOMAIN run[p].detailed :
             /\ run[p].detailed[i].link \in fetch_existing_links(articles, run[p].target_date)
             /\ Truthy(run[p].detailed[i].summary)

\* C9: embed_batch is called only after insert_articles of the run has
\* committed and the rows of the batch have been looked up by link; a run that
\* does not use the store or whose insert_articles raised never calls it.
C9_EmbedAfterUpsertAndLookup ==
    \A p \in Procs : run[p].pc \in {"vectors", "store"} \/ run[p].did_embed =>
        /\ run[p].use_database /\ run[p].conn
        /\ run[p].did_insert /\ run[p].ord \in upserted
        /\ run[p].did_lookup
        /\ run[p].articles # <<>>
        /\ \A i \in DOMAIN run[p].articles :
             /\ run[p].articles[i] \in articles
             /\ run[p].articles[i].link \in Range(LinksOf(run[p].detailed))

\* embed_batch was called for a row this run inserted while the table holds
\* another row as well
C9_Witness ==
    \E p \in Procs :
        /\ run[p].did_embed
        /\ run[p].inserted = 1
        /\ Len(run[p].articles) = 1
        /\ Cardinality(articles) = 2

\* C10: the cache refresh and the embedding step are performed only when
\* insert_articles reported at least one inserted row; with a count of 0
\* neither is performed.
C10_RefreshAndEmbedOnlyWhenInserted ==
    \A p \in Procs :
        run[p].did_refresh \/ run[p].did_embed => run[p].inserted > 0

\* C11: after any interleaving of runs no article has more than one row in
\* vectors; insert_embeddings for an article that has a vector inserts nothing
\* for it and leaves the stored vector as it is.
C11_OneVectorPerArticle ==
    /\ [](\A v1, v2 \in vectors : v1.article_id = v2.article_id => v1 = v2)
    /\ [][/\ vectors \subseteq vectors'
          /\ \A v \in vectors' \ vectors :
                ~\E w \in vectors : w.article_id = v.article_id]_vars

\* a run is about to insert vectors for a batch whose articles all have one,
\* stored by the other run
C11_Witness ==
    \E p \in Procs :
        /\ run[p].pc = "store"
        /\ ~NotEmbeddings(run[p].embeddings)
        /\ \A i \in DOMAIN run[p].articles :
             \E v \in vectors : v.article_id = run[p].articles[i].id

\* C12: the article_id of every row of vectors is the id of a row of articles.
C12_VectorHasArticle ==
    \A v \in vectors : \E r \in articles : r.id = v.article_id

\* two articles are stored, each with its vector
C12_Witness ==
    /\ Cardinality(vectors) = 2
    /\ Cardinality(articles) = 2

\* C13: when insert_articles or insert_embeddings raises part-way, none of the
\* rows of that call is stored, neither when it raises nor when the run ends;
\* a call that returns has stored a row for every link (every article) it was
\* given.
C13_WritesAreTransactional ==
    [][\A p \in Procs :
        /\ (run'[p].pc = "failed" \/ run[p].pc = "failed") /\ run'[p] # run[p]
               => articles' = articles /\ vectors' = vectors
        /\ run[p].pc = "persist" /\ run'[p].did_insert
               => \A i \in DOMAIN run[p].detailed :
                      \E r \in articles' : r.link = run[p].detailed[i].link
        /\ run[p].pc = "store" /\ run'[p].pc = "done" /\ ~NotEmbeddings(run[p].embeddings)
               => \A i \in DOMAIN run[p].articles :
                      \E v \in vectors' : v.article_id = run[p].articles[i].id
      ]_vars

\* insert_articles raised after it had written one of its two rows
C13_Witness ==
    \E p \in Procs :
        /\ run[p].pc = "failed"
        /\ run[p].txn.table = "articles"
        /\ run[p].txn.of = 2
        /\ Cardinality(run[p].txn.rows) = 1

\* C14: no step changes or removes a stored row of articles; insert_articles
\* with a record whose link is stored leaves that row as it is, also when the
\* record's content or summary differs.
C14_StoredArticlesImmutable ==
    [][\A r \in articles : r \in articles']_vars

\* insert_articles returned 0 for a record whose content and summary differ
\* from those of the stored row with its link
C14_Witness ==
    \E p \in Procs :
        /\ run[p].did_insert
        /\ run[p].inserted = 0
        /\ \E r \in articles :
             /\ r.link = run[p].detailed[1].link
             /\ r.content # run[p].detailed[1].content
             /\ r.summary # run[p].detailed[1].summary

\* C15: with three candidates for the date of which exactly one link is
\* stored, every detail with content, a summarizer and an embedder that work,
\* one run inserts exactly 2 rows of articles and exactly 2 rows of vectors.
C15_TwoItemsTwoVectors ==
    [][\A p \in Procs :
        (/\ run[p].pc = "store" /\ run'[p].pc = "done"
         /\ run[p].ord = 1
         /\ Len(run[p].candidates) = 3
         /\ \A i \in DOMAIN run[p].detailed : run[p].detailed[i].summary = "s1"
         /\ run[p].answer = [kind |-> "ok", count |-> Len(run[p].articles)])
        => /\ run[p].inserted = 2
           /\ Cardinality(vectors' \ vectors) = 2
      ]_vars

(***************************************************************************)
(* C16: a cache failure during the refresh step never fails the run: the   *)
(* step that finds the cache unreachable changes neither the stored        *)
(* articles nor the vectors and hands the same batch to the lookup of the  *)
(* embedding step, and a run whose refresh failed is only ever found in    *)
(* the embedding steps, its batch upserted and every item of it stored.    *)
(***************************************************************************)
C16_CacheFailureNotFatal ==
    /\ [](\A p \in Procs :
            (run[p].did_refresh /\ run[p].refreshed = 0)
            => /\ run[p].pc \in {"lookup", "vectors", "store"}
               /\ run[p].ord \in upserted
               /\ \A i \in DOMAIN run[p].detailed :
                     \E r \in articles : r.link = run[p].detailed[i].link)
    /\ [][\A p \in Procs :
            (run[p].pc = "refresh" /\ run'[p].did_refresh /\ run'[p].refreshed = 0)
            => /\ articles' = articles
               /\ vectors' = vectors
               /\ run'[p].pc = "lookup"
               /\ run'[p].detailed = run[p].detailed
               /\ run'[p].inserted = run[p].inserted
         ]_vars

\* a run whose refresh failed has the embeddings of its batch ready to insert
C16_Witness ==
    \E p \in Procs :
        /\ run[p].pc = "store"
        /\ run[p].did_refresh /\ run[p].refreshed = 0
        /\ run[p].did_embed
        /\ run[p].answer.kind = "ok"
        /\ run[p].embeddings.ok
        /\ Len(run[p].embeddings.list) = Len(run[p].articles)
        /\ run[p].inserted > 0

(***************************************************************************)
(* C17: deduplication comes before enrichment: in a run that uses the      *)
(* store, one detail was fetched for each item of new_items and for        *)
(* nothing else, and no item of new_items, no item handed to the           *)
(* summarizer (detailed) and no article handed to the embedder has a link  *)
(* of the existing_links read at the start of the run.                     *)
(***************************************************************************)
C17_DedupBeforeEnrichment ==
    \A p \in Procs :
        (run[p].pc \in {"summarize", "persist", "refresh", "lookup", "vectors", "store"}
         /\ StoreUsable(run[p]))
        => /\ Len(run[p].details) = Len(run[p].new_items)
           /\ Range(LinksOf(run[p].new_items)) \cap run[p].existing_links = {}
           /\ Range(LinksOf(run[p].detailed)) \cap run[p].existing_links = {}
           /\ Range(LinksOf(run[p].detailed)) \subseteq Range(LinksOf(run[p].new_items))
           /\ \A i \in DOMAIN run[p].articles :
                 /\ run[p].articles[i].link \notin run[p].existing_links
                 /\ run[p].articles[i].link \in Range(LinksOf(run[p].detailed))

\* a run that listed a link it had read as existing has called the embedder
C17_Witness ==
    \E p \in Procs :
        /\ run[p].pc = "store" /\ run[p].did_embed
        /\ StoreUsable(run[p])
        /\ \E i \in DOMAIN run[p].candidates :
              run[p].candidates[i].link \in run[p].existing_links
        /\ run[p].articles # <<>>

(***************************************************************************)
(* C18: when the list request fails or the page has no row of the target   *)
(* date, fetch_list is empty and every run ends at line 131 or before: no  *)
(* run gets to the detail loop, the summarizer, the store steps or the     *)
(* embedder, no article, vector or cache region is written, and no run     *)
(* ends in the error handler.                                              *)
(***************************************************************************)
C18_EmptyListEndsRun ==
    (\/ ~env.page.ok
     \/ \A i \in DOMAIN env.page.rows : env.page.rows[i].date # env.date)
    => /\ \A p \in Procs :
             /\ run[p].pc \in {"idle", "done"}
             /\ run[p].ended \in {"", "hours", "no list"}
             /\ run[p].details = <<>> /\ run[p].detailed = <<>>
             /\ ~run[p].did_insert /\ ~run[p].did_refresh /\ ~run[p].did_embed
       /\ articles = {} /\ vectors = {} /\ today = NoRegion
       /\ upserted = {}

\* a run ended at line 131 although the page was answered and had rows
C18_Witness ==
    /\ run["p1"].pc = "done" /\ run["p1"].ended = "no list"
    /\ env.page.ok /\ env.page.rows # <<>>
    /\ started = MaxRuns

(***************************************************************************)
(* C19: an item whose detail is empty is skipped and the others go on.     *)
(* In a run past the detail loop, detailed holds, in order, exactly the    *)
(* items of new_items whose detail is not empty, each with the content     *)
(* fetched for it; a link all of whose details were empty is not among     *)
(* the articles handed to the embedder, is not in a row the run inserts    *)
(* and is not in a region the run writes to the cache; and what the run    *)
(* hands to the embedder is the rows of the links of detailed.             *)
(***************************************************************************)
C19_EmptyDetailSkipsOnlyThatItem ==
    /\ [](\A p \in Procs :
            run[p].pc \in {"summarize", "persist", "refresh", "lookup", "vectors", "store"}
            => LET r    == run[p]
                   kept == {i \in DOMAIN r.new_items : r.details[i] # ""}
                   nth(k) == CHOOSE i \in kept :
                                 Cardinality({j \in kept : j <= i}) = k
                   skipped == {r.new_items[i].link : i \in DOMAIN r.new_items \ kept}
                                 \ {r.new_items[i].link : i \in kept}
               IN  /\ Len(r.detailed) = Cardinality(kept)
                   /\ \A k \in DOMAIN r.detailed :
                         /\ r.detailed[k].link = r.new_items[nth(k)].link
                         /\ r.detailed[k].content = r.details[nth(k)]
                   /\ \A i \in DOMAIN r.articles : r.articles[i].link \notin skipped
                   /\ r.pc \in {"vectors", "store"}
                        => Range(LinksOf(r.articles)) = Range(LinksOf(r.detailed)))
    /\ [][\A p \in Procs :
            LET r    == run[p]
                kept == {i \in DOMAIN r.new_items : r.details[i] # ""}
                skipped == {r.new_items[i].link : i \in DOMAIN r.new_items \ kept}
                              \ {r.new_items[i].link : i \in kept}
            IN  /\ (r.pc = "persist" /\ run'[p].pc # "persist")
                    => \A row \in articles' \ articles : row.link \notin skipped
                /\ (r.pc = "refresh" /\ today' # today)
                    => \A i \in DOMAIN today'.articles :
                          today'.articles[i].link \notin skipped
         ]_vars

\* a run that skipped one item has called the embedder for another
C19_Witness ==
    \E p \in Procs :
        /\ run[p].pc = "store" /\ run[p].did_embed /\ run[p].embeddings.ok
        /\ Len(run[p].new_items) = 2 /\ Len(run[p].detailed) = 1
        /\ run[p].new_items[1].link # run[p].new_items[2].link
        /\ run[p].details[1] = ""
        /\ run[p].inserted = 1

C21_GateWindow ==
    gate.pc = "checked"
    => LET target_day == CHOOSE d \in GateDays : strftime(d) = gate.target_date
       IN  /\ target_day = gate.now_day
                => (gate.allowed <=> gate.now_hour \in 7..23)
           /\ (target_day = gate.now_day /\ gate.now_hour = 6 /\ gate.now_minute = 59)
                => ~gate.allowed
           /\ (target_day = gate.now_day /\ gate.now_hour = 7 /\ gate.now_minute = 0)
                => gate.allowed
           /\ (target_day = gate.now_day /\ gate.now_hour = 23 /\ gate.now_minute = 59)
                => gate.allowed
           /\ target_day < gate.now_day => gate.allowed

\* the gate was asked at 06:59 of the target date and refused
C21_Witness ==
    /\ gate.pc = "checked"
    /\ gate.target_date = strftime(gate.now_day)
    /\ gate.now_hour = 6 /\ gate.now_minute = 59
    /\ ~gate.allowed

(***************************************************************************)
(* C22, as stated: a crawler whose target date is day D and whose gate is  *)
(* asked at 00:00 of the day after D is refused.                           *)
(***************************************************************************)
C22_RefusedAtNextMidnight ==
    (/\ gate.pc = "checked"
     /\ gate.now_day > 1
     /\ gate.target_date = strftime(gate.now_day - 1)
     /\ gate.now_hour = 0 /\ gate.now_minute = 0)
    => ~gate.allowed

(***************************************************************************)
(* C22, amended: a crawler whose target date is day D and whose gate is    *)
(* asked at 00:00 of the day after D is allowed to run (D is by then a     *)
(* date before the date of now); at 00:00 the gate refuses only the        *)
(* target date that is the date of now.                                    *)
(***************************************************************************)
C22_AllowedAtNextMidnight ==
    (/\ gate.pc = "checked"
     /\ gate.now_hour = 0 /\ gate.now_minute = 0)
    => /\ (gate.now_day > 1 /\ gate.target_date = strftime(gate.now_day - 1))
            => gate.allowed
       /\ ~gate.allowed <=> gate.target_date = strftime(gate.now_day)

\* a crawler constructed for its own day was asked at the next midnight
C22_Witness ==
    /\ gate.pc = "checked"
    /\ gate.now_day > 1
    /\ gate.target_date = strftime(gate.now_day - 1)
    /\ gate.now_hour = 0 /\ gate.now_minute = 0
    /\ gate.day = gate.now_day /\ gate.hour = 0 /\ gate.minute = 0

(***************************************************************************)
(* C23: insert_articles returns the number of rows it newly inserted: the  *)
(* count a run gets is the number of distinct links of its batch that had  *)
(* no row before the call, the call adds exactly one row for each of       *)
(* them, and a link that was stored or is repeated in the batch adds       *)
(* nothing and makes the call neither fail nor change a stored row.        *)
(***************************************************************************)
C23_CountIsNewlyInserted ==
    [][\A p \in Procs :
        (run[p].pc = "persist" /\ run'[p].did_insert)
        => LET batch  == Range(LinksOf(run[p].detailed))
               stored == {r.link : r \in articles}
               fresh  == batch \ stored
           IN  /\ run'[p].inserted = Cardinality(fresh)
               /\ articles \subseteq articles'
               /\ Cardinality(articles' \ articles) = Cardinality(fresh)
               /\ {r.link : r \in articles' \ articles} = fresh
               /\ run'[p].pc \in {"refresh", "lookup"}
     ]_vars

\* a batch of two held one link that was stored (or the same link twice)
C23_Witness ==
    \E p \in Procs :
        /\ run[p].did_insert
        /\ Len(run[p].detailed) = 2
        /\ run[p].inserted = 1
        /\ run[p].ord = 2

C26_ZeroWeightIsDistanceOrder ==
    (rank.pc = "returned" /\ rank.recency_weight = 0)
    => LET out == rank.results
           returned == {[similarity |-> out[i].similarity, days |-> out[i].days] :
                           i \in DOMAIN out}
       IN  /\ \A i \in DOMAIN out : out[i].score = out[i].similarity
           /\ \A i, j \in DOMAIN out : i < j => out[i].similarity <= out[j].similarity
           /\ \A r \in rank.corpus \ returned, i \in DOMAIN out :
                 out[i].similarity <= r.similarity
           /\ Len(out) = Min(rank.top_k, Cardinality(rank.corpus))

\* with weight 0 an old near row is returned before a new one farther away
C26_Witness ==
    /\ rank.pc = "returned" /\ rank.recency_weight = 0
    /\ Len(rank.results) = 2
    /\ rank.results[1].similarity < rank.results[2].similarity
    /\ rank.results[1].days = 5 /\ rank.results[2].days = 0

(***************************************************************************)
(* C27, as stated: with a recency weight above 0, of two rows returned     *)
(* with the same distance the one with the smaller age has the strictly    *)
(* lower score and comes first; the age is never negative, a publication   *)
(* date in the future counting as age 0.                                   *)
(***************************************************************************)
C27_YoungerStrictlyFirst ==
    (rank.pc = "returned" /\ rank.recency_weight > 0)
    => LET out == rank.results
       IN  /\ \A i, j \in DOMAIN out :
                 (/\ out[i].similarity = out[j].similarity
                  /\ age_days(out[i].days) < age_days(out[j].days))
                 => out[i].score < out[j].score /\ i < j
           /\ \A i \in DOMAIN out :
                 /\ age_days(out[i].days) >= 0
                 /\ out[i].days < 0
                      => out[i].score = out[i].similarity - rank.recency_weight * Resolution

(***************************************************************************)
(* C27, amended: with a recency weight above 0, of two rows returned with  *)
(* the same distance the one with the smaller age never has the higher     *)
(* score, and it has the strictly lower score and comes first whenever     *)
(* the two bonuses differ by at least the resolution of a score; the age   *)
(* is never negative, a publication date in the future counting as age 0.  *)
(***************************************************************************)
C27_YoungerNeverBehind ==
    (rank.pc = "returned" /\ rank.recency_weight > 0)
    => LET out == rank.results
           bonus(x) == exp_neg(age_days(x.days), rank.half_life_days)
       IN  /\ \A i, j \in DOMAIN out :
                 (/\ out[i].similarity = out[j].similarity
                  /\ age_days(out[i].days) < age_days(out[j].days))
                 => /\ out[i].score <= out[j].score
                    /\ bonus(out[i]) # bonus(out[j])
                         => out[i].score < out[j].score /\ i < j
           /\ \A i \in DOMAIN out :
                 /\ age_days(out[i].days) >= 0
                 /\ out[i].days < 0
                      => out[i].score = out[i].similarity - rank.recency_weight * Resolution

\* two rows of one distance are returned, the new one before the old one,
\* and so are two old rows of one distance and one score
C27_Witness ==
    /\ rank.pc = "returned" /\ rank.recency_weight > 0
    /\ \E i, j, k \in DOMAIN rank.results :
          /\ i < j /\ j < k
          /\ rank.results[i].similarity = rank.results[k].similarity
          /\ rank.results[j].similarity = rank.results[k].similarity
          /\ rank.results[i].days = 0
          /\ rank.results[j].days = 5 /\ rank.results[k].days = 4
          /\ rank.results[j].score = rank.results[k].score


(***************************************************************************)
(* C28: fetch_list and fetch_detail never raise to their caller; when the  *)
(* request met a network error, a timeout or a status other than 200,      *)
(* fetch_list returns the empty list and fetch_detail returns an empty     *)
(* content with no attachments.                                            *)
(***************************************************************************)
C28_FetchNeverRaises ==
    /\ fetch.list_pc # "raised"
    /\ fetch.detail_pc # "raised"
    /\ (/\ fetch.list_pc = "returned"
        /\ \/ fetch.list_response.kind \in RequestExceptions
           \/ fetch.list_response.status_code # 200)
           => fetch.candidates = <<>>
    /\ (/\ fetch.detail_pc = "returned"
        /\ \/ fetch.detail_response.kind \in RequestExceptions
           \/ fetch.detail_response.status_code # 200)
           => fetch.detail = [content |-> EmptyContent, attachments |-> <<>>]

C28_Witness ==
    /\ fetch.list_pc = "returned"
    /\ fetch.detail_pc = "returned"
    /\ fetch.list_response.kind = "Timeout"
    /\ fetch.detail_response.kind = "response"
    /\ fetch.detail_response.status_code = 500
    /\ fetch.detail_response.text.attachments # <<>>

C30_RefreshReplacesAndResetsTtl ==
    [][(cache.pc = "called" /\ cache'.pc = "idle" /\ cache'.returned = 1)
         => /\ today'.present
            /\ Len(today'.articles) = Len(cache.articles)
            /\ \A i \in 1..Len(cache.articles) :
                 /\ DOMAIN today'.articles[i] = DOMAIN cache.articles[i] \ {"content"}
                 /\ \A k \in DOMAIN today'.articles[i] :
                      today'.articles[i][k] = cache.articles[i][k]
            /\ today'.ttl = 24 * 3600]_vars

C30_Witness ==
    /\ cache.pc = "idle"
    /\ cache.returned = 1
    /\ cache.prior_ttl > 0
    /\ cache.prior_ttl < today.ttl
    /\ Len(cache.articles) = MaxCached
    /\ cache.articles[1].id > cache.articles[2].id
    /\ Len(today.articles) = MaxCached
    /\ today.articles[1].id > today.articles[2].id

(***************************************************************************)
(* C31: when a run for the current date has stored its batch and its cache *)
(* refresh succeeded, articles:today holds all stored articles of that     *)
(* date; the refresh of a run for any other date leaves articles:today as  *)
(* it was.                                                                 *)
(***************************************************************************)
C31_TodayOnlyForCurrentDate ==
    [][\A p \in Procs :
         (run[p].pc = "refresh" /\ run'[p].pc = "lookup" /\ run'[p].refreshed = 1)
            => IF run[p].target_date = run'[p].now_date
               THEN /\ today'.present
                    /\ {a.id : a \in Range(today'.articles)}
                         = {r.id : r \in {x \in articles' :
                                            x.published_on = run[p].target_date}}
                    /\ Len(today'.articles) = Cardinality(Range(today'.articles))
               ELSE today' = today]_vars

C31_Witness ==
    \E p \in Procs :
        /\ run[p].pc = "lookup"
        /\ run[p].refreshed = 1
        /\ run[p].now_date # run[p].target_date
        /\ today.present
        /\ today.date # run[p].target_date
        /\ \E r \in articles : r.published_on = run[p].target_date

(***************************************************************************)
(* C34: when _fill_summaries returns, whatever the calls of summarize      *)
(* answered, every item of the batch has a non-empty summary: a generated  *)
(* text or the failure marker.                                             *)
(***************************************************************************)
C34_EveryItemHasSummary ==
    fill.pc = "returned" =>
        \A i \in 1..Len(fill.f.items) :
            /\ fill.f.items[i].summary # None
            /\ fill.f.items[i].summary # ""

C34_Witness ==
    /\ fill.pc = "returned"
    /\ fill.summarizer = "flaky"
    /\ Len(fill.f.items) = MaxItems
    /\ fill.f.items[1].summary = FailMarker
    /\ fill.f.items[2].summary = "s1"
    /\ fill.f.calls[2] > 1

(***************************************************************************)
(* C35: a run inserts vectors only for articles whose links are in the     *)
(* new_items it fetched itself, and never for an article that was stored   *)
(* when it read existing_links.  Runs follow one another here, so the rows *)
(* a run found stored are all but the last run[p].inserted rows of         *)
(* articles.                                                               *)
(***************************************************************************)
C35_OnlyOwnNewItemsEmbedded ==
    [][\A p \in Procs :
         run[p].pc = "store"
            => \A v \in vectors' \ vectors :
                  \E r \in articles :
                      /\ r.id = v.article_id
                      /\ r.link \in Range(LinksOf(run[p].new_items))
                      /\ r.id > Cardinality(articles) - run[p].inserted]_vars

(***************************************************************************)
(* C36: an item whose detail page is empty is skipped without a trace: no  *)
(* row with its link is stored.  Once the portal answers its detail, a run *)
(* for the same date whose list still shows it has it among its new_items, *)
(* and the insert_articles of that run stores it with the content fetched. *)
(***************************************************************************)
C36_SkippedItemIsNewLater ==
    \A l \in Links :
        /\ env.detail[l] = "" => \A r \in articles : r.link # l
        /\ (/\ env.detail[l] = Recovered
            /\ \E i \in DOMAIN env.page.rows :
                  env.page.rows[i] = [link |-> l, date |-> env.date])
              => \A p \in Procs :
                    (run[p].pc \notin {"idle", "done", "failed"} /\ StoreUsable(run[p]))
                       => /\ l \in Range(LinksOf(run[p].new_items))
                          /\ run[p].did_insert
                                => \E r \in articles :
                                      r.link = l /\ r.content = Recovered

\* the first run stored b and skipped a, the second run has stored a
C36_Witness ==
    /\ env.detail["a"] = Recovered
    /\ \E p \in Procs : run[p].did_insert /\ run[p].inserted = 1
                        /\ LinksOf(run[p].new_items) = <<"a">>
    /\ \E r1, r2 \in articles :
          /\ r1.link = "b" /\ r1.id = 1 /\ r1.content = "c1"
          /\ r2.link = "a" /\ r2.id = 2 /\ r2.content = Recovered
          /\ r1.published_on = r2.published_on

(***************************************************************************)
(* C37: in any interleaving of two runs, every stored vector was computed  *)
(* from the summary and the content of the stored row of the article it    *)
(* references, also when the run that embedded it held another summary for *)
(* the link in memory.                                                     *)
(***************************************************************************)
C37_VectorOfStoredText ==
    \A v \in vectors :
        \E r \in articles :
            /\ r.id = v.article_id
            /\ v.embedding.of.summary = r.summary
            /\ v.embedding.of.content = r.content

\* a run that produced another summary than the stored one has embedded the
\* stored text, and the other run has stored its vector
C37_Witness ==
    \E p \in Procs :
        /\ run[p].pc = "store"
        /\ run[p].embeddings.ok
        /\ Len(run[p].embeddings.list) = 1
        /\ run[p].embeddings.list[1].of.summary # run[p].detailed[1].summary
        /\ \E r \in articles :
              /\ r.link = run[p].detailed[1].link
              /\ r.summary = run[p].embeddings.list[1].of.summary
              /\ \E v \in vectors : v.article_id = r.id

(***************************************************************************)
(* C38: whenever run() has returned, by the end of its body, an early exit *)
(* or an error path, no connection that it opened is still open.           *)
(***************************************************************************)
C38_ConnectionsClosedAtReturn ==
    \A p \in Procs : run[p].pc = "done" => ~run[p].open

(***************************************************************************)
(* C39: a refresh token is single-use: in any interleaving of refresh and  *)
(* logout calls with one token, at most one refresh returns new tokens,    *)
(* and no refresh that arrives after a refresh or a logout with the token  *)
(* has completed returns tokens.                                           *)
(***************************************************************************)
C39_RefreshTokenSingleUse ==
    /\ Cardinality({c \in AuthCalls : auth.call[c].result = "tokens"}) <= 1
    /\ \A c \in AuthCalls : auth.call[c].result = "tokens" => ~auth.call[c].after

(***************************************************************************)
(* C32: a call of refresh_article_detail_cache that succeeds leaves, for   *)
(* each item of the batch that has an id, the entry of that id holding the *)
(* whole item, its content included, with an expiry of 3 days; it writes   *)
(* no other entry, so an item without an id has none, and it returns the   *)
(* number of entries it wrote.                                             *)
(***************************************************************************)
C32_OneDetailEntryPerItemWithId ==
    [][(detail.pc = "called" /\ detail'.pc = "idle" /\ detail'.outcome = "written")
         => /\ \A i \in 1..Len(detail.articles) :
                 "id" \in DOMAIN detail.articles[i]
                    => /\ detail'.entries[detail.articles[i].id].present
                       /\ detail'.entries[detail.articles[i].id].value = detail.articles[i]
                       /\ "content" \in DOMAIN detail'.entries[detail.articles[i].id].value
                       /\ detail'.entries[detail.articles[i].id].ttl = 3 * 24 * 3600
            /\ \A k \in DetailIds :
                 (\A i \in 1..Len(detail.articles) :
                     "id" \in DOMAIN detail.articles[i] => detail.articles[i].id # k)
                    => detail'.entries[k] = detail.entries[k]
            /\ detail'.returned
                 = Cardinality({k \in DetailIds :
                                  \E i \in 1..Len(detail.articles) :
                                      /\ "id" \in DOMAIN detail.articles[i]
                                      /\ detail.articles[i].id = k})]_vars

C32_Witness ==
    /\ detail.pc = "idle"
    /\ detail.outcome = "written"
    /\ Len(detail.articles) = MaxBatch
    /\ \E i \in 1..MaxBatch : "id" \notin DOMAIN detail.articles[i]
    /\ detail.returned = 2
    /\ \A k \in DetailIds : detail.entries[k].present /\ detail.entries[k].value.content # "c0"

(***************************************************************************)
(* C33: the caller that has computed a page starts a pre-warm task for the *)
(* next page if and only if its page is full and the next page is not      *)
(* cached; the caller can return whatever the task is doing; and a task    *)
(* that was started completes, also when its caller has returned before.   *)
(***************************************************************************)
C33_PrewarmStartedIffFullAndUncached ==
    /\ [][(warm.caller.pc = "computing" /\ warm'.caller.pc = "computed")
            => (warm'.task[warm.caller.n].pc = "started"
                  <=> /\ warm'.caller.count = PageLimit
                      /\ (warm.caller.before - warm'.caller.count) \notin warm.pages)]_vars
    /\ [](warm.caller.pc = "computed" => ENABLED Return)
    /\ \A r \in 1..MaxCallers :
         (warm.task[r].pc = "started") ~> (warm.task[r].pc = "done")

C33_Witness ==
    /\ warm.caller.pc = "returned"
    /\ \E r \in 1..MaxCallers :
         /\ warm.task[r].pc = "done"
         /\ warm.task[r].orphan
         /\ warm.task[r].key \in warm.pages
=============================================================================
